---------------------------- MODULE Spec2Model ----------------------------
(***************************************************************************)
(* A model of the natural-language-to-SQL chat layer: the domain           *)
(* classifier and relevant-table resolver (utils/domain_analyzer.py), the  *)
(* SQL generation pipeline with its caches (utils/database_manager.py)     *)
(* and the /chat and /batch_chat handlers (app/routes/chat.py).            *)
(*                                                                         *)
(* Python strings are sequences of one-character strings, so that lower(), *)
(* strip(), slicing, startswith() and the substring test `in` are computed *)
(* the way the code computes them.                                         *)
(***************************************************************************)
EXTENDS Integers, Sequences, FiniteSets, TLC

VARIABLES
    dq,                 \* classifier harness: the question handed to the analyzer
    dres,               \* classifier harness: "none" or the domain returned
    redis_client,       \* "None" when the start-up ping failed, else "client"
    redis_schema,       \* the external cache entry schema_<database>
    redis_llm_sql,      \* the external cache entries llm_sql_<key>
    redis_queryres,     \* the external cache entries queryres_<database>_<sql>
    DB_METADATA_CACHE,  \* the in-process schema cache entry and its age
    _domain_analyzer,   \* the DomainAnalyzer singleton
    pc,                 \* where the request being served stands
    endpoint,           \* "chat" or "batch_chat"
    batch_left,         \* questions of the batch not answered yet
    the_question,       \* the stripped question being answered
    the_error_context,  \* the error text handed to the retried generation
    the_sql,            \* the SQL the pipeline returned to its caller
    the_df,             \* the DataFrame handed to _process_query_result
    the_err,            \* the error of the last execute_query call
    gen,                \* what the last stand-alone generation did
    response,           \* the response to the question
    n_generate,         \* generate_sql_token_optimized calls for the question
    n_execute,          \* execute_query calls for the question
    n_completion,       \* completion service calls for the question
    n_history           \* add_to_conversation_history calls for the question

dvars == <<dq, dres>>

caches == <<redis_client, redis_schema, redis_llm_sql, redis_queryres,
            DB_METADATA_CACHE, _domain_analyzer>>

turn == <<pc, endpoint, batch_left, the_question, the_error_context,
          the_sql, the_df, the_err, gen, response, n_generate, n_execute, n_completion, n_history>>

vars == <<dvars, caches, turn>>

---------------------------------------------------------------------------
(* str methods *)

UpperLetters ==
    <<"A","B","C","D","E","F","G","H","I","J","K","L","M",
      "N","O","P","Q","R","S","T","U","V","W","X","Y","Z">>

LowerLetters ==
    <<"a","b","c","d","e","f","g","h","i","j","k","l","m",
      "n","o","p","q","r","s","t","u","v","w","x","y","z">>

LowerChar(c) ==
    IF \E i \in DOMAIN UpperLetters : UpperLetters[i] = c
    THEN LowerLetters[CHOOSE i \in DOMAIN UpperLetters : UpperLetters[i] = c]
    ELSE c

\* str.lower()
Lower(s) ==
    [i \in 1..Len(s) |-> LowerChar(s[i])]

Whitespace ==
    {" ", "\n", "\t", "\r"}

\* The character U+0060 (the mark of a Markdown code fence), which a string
\* literal of this language cannot hold.
BackQuote ==
    "<U+0060>"

\* str.strip()
Strip(s) ==
    LET keep == {i \in 1..Len(s) : s[i] \notin Whitespace}
    IN  IF keep = {} THEN <<>>
        ELSE LET lo == CHOOSE i \in keep : \A j \in keep : i <= j
                 hi == CHOOSE i \in keep : \A j \in keep : j <= i
             IN  SubSeq(s, lo, hi)

\* str.startswith(prefix)
StartsWith(s, prefix) ==
    /\ Len(s) >= Len(prefix)
    /\ SubSeq(s, 1, Len(prefix)) = prefix

\* str.endswith(suffix)
EndsWith(s, suffix) ==
    /\ Len(s) >= Len(suffix)
    /\ SubSeq(s, Len(s) - Len(suffix) + 1, Len(s)) = suffix

\* the substring test `sub in s`
Contains(s, sub) ==
    \E i \in 0..(Len(s) - Len(sub)) : SubSeq(s, i + 1, i + Len(sub)) = sub

\* any(word in s for word in words)
ContainsAny(s, words) ==
    \E w \in words : Contains(s, w)

\* the slice s[a:-b] for a, b > 0
SliceFromTo(s, a, b) ==
    IF Len(s) - b >= a + 1 THEN SubSeq(s, a + 1, Len(s) - b) ELSE <<>>

---------------------------------------------------------------------------
(* Optional values, and the state between two requests *)

\* None where a string is expected (no string of characters has an element
\* of more than one character).
None ==
    <<"None">>

\* "if sql:" taken for every value
Truthy_for_every_value(value) ==
    TRUE

\* the truth value of an optional string, as in "if sql:"
Truthy(value) ==
    value # None /\ value # <<>>

\* None where a schema, a DataFrame, a cache entry or a response is expected.
Nothing ==
    [none |-> TRUE]

\* No request is being served.
TurnAtRest ==
    /\ pc = "idle"
    /\ endpoint = "none"
    /\ batch_left = 0
    /\ the_question = None
    /\ the_error_context = None
    /\ the_sql = None
    /\ the_df = Nothing
    /\ the_err = None
    /\ gen = Nothing
    /\ response = Nothing
    /\ n_generate = 0
    /\ n_execute = 0
    /\ n_completion = 0
    /\ n_history = 0

\* The process has just started without a cache service: every cache is empty.
ProcessJustStarted ==
    /\ redis_client = "None"
    /\ redis_schema = Nothing
    /\ redis_llm_sql = <<>>
    /\ redis_queryres = <<>>
    /\ DB_METADATA_CACHE = Nothing
    /\ _domain_analyzer = Nothing

---------------------------------------------------------------------------
(* DomainAnalyzer.detect_domain_from_question *)

hr_keywords ==
    { <<"e","m","p","l","o","y","e","e">>, <<"h","i","r","e">>, <<"a","t","t","e","n","d","a","n","c","e">>, <<"l","e","a","v","e">>, <<"h","r">>,
      <<"h","u","m","a","n">>, <<"r","e","s","o","u","r","c","e">>, <<"s","t","a","f","f">>, <<"p","e","r","s","o","n","n","e","l">>, <<"w","o","r","k","f","o","r","c","e">>,
      <<"p","a","y","r","o","l","l">>, <<"s","h","i","f","t">>, <<"s","c","h","e","d","u","l","e">>, <<"d","e","p","a","r","t","m","e","n","t">> }

\* inventory_keywords without the context word 'order'
inventory_keywords_without_order ==
    { <<"p","r","o","d","u","c","t">>, <<"s","t","o","c","k">>, <<"i","n","v","e","n","t","o","r","y">>, <<"s","a","l","e","s">>, <<"p","u","r","c","h","a","s","e">>,
      <<"i","t","e","m">>, <<"g","o","o","d","s">>, <<"m","e","r","c","h","a","n","d","i","s","e">>, <<"s","u","p","p","l","y">>,
      <<"c","a","t","e","g","o","r","y">>, <<"b","r","a","n","d">> }

inventory_keywords ==
    { <<"p","r","o","d","u","c","t">>, <<"s","t","o","c","k">>, <<"i","n","v","e","n","t","o","r","y">>, <<"s","a","l","e","s">>, <<"p","u","r","c","h","a","s","e">>,
      <<"i","t","e","m">>, <<"g","o","o","d","s">>, <<"m","e","r","c","h","a","n","d","i","s","e">>, <<"s","u","p","p","l","y">>, <<"o","r","d","e","r">>,
      <<"c","a","t","e","g","o","r","y">>, <<"b","r","a","n","d">> }

financial_keywords ==
    { <<"a","c","c","o","u","n","t">>, <<"p","a","y","m","e","n","t">>, <<"t","r","a","n","s","a","c","t","i","o","n">>, <<"f","i","n","a","n","c","i","a","l">>,
      <<"m","o","n","e","y">>, <<"i","n","v","o","i","c","e">>, <<"b","a","n","k">>, <<"b","a","l","a","n","c","e">>, <<"r","e","v","e","n","u","e">>,
      <<"e","x","p","e","n","s","e">>, <<"b","u","d","g","e","t">>, <<"c","r","e","d","i","t">> }

reporting_keywords ==
    { <<"r","e","p","o","r","t">>, <<"c","h","a","r","t">>, <<"d","a","s","h","b","o","a","r","d">>, <<"a","n","a","l","y","t","i","c","s">>,
      <<"s","t","a","t","i","s","t","i","c","s">>, <<"s","u","m","m","a","r","y">>, <<"o","v","e","r","v","i","e","w">>, <<"t","r","e","n","d">>, <<"g","r","a","p","h">> }

core_entity_keywords ==
    { <<"u","s","e","r">>, <<"p","e","r","s","o","n">>, <<"p","a","r","t","y">>, <<"e","n","t","i","t","y">> }

inventory_context_keywords ==
    { <<"p","r","o","d","u","c","t">>, <<"s","t","o","c","k">>, <<"i","n","v","e","n","t","o","r","y">>, <<"s","a","l","e","s">>, <<"p","u","r","c","h","a","s","e">>,
      <<"o","r","d","e","r">>, <<"s","u","p","p","l","y">> }

customer_supplier_keywords ==
    { <<"c","u","s","t","o","m","e","r">>, <<"s","u","p","p","l","i","e","r">> }

Domains ==
    {"hr", "inventory", "financial", "reporting", "general"}

\* The keyword tests in another order: reporting is tested before inventory.
detect_domain_reordered(question) ==
    LET question_lower == Lower(question)
    IN  IF ContainsAny(question_lower, hr_keywords) THEN "hr"
        ELSE IF ContainsAny(question_lower, reporting_keywords) THEN "reporting"
        ELSE IF ContainsAny(question_lower, inventory_keywords) THEN "inventory"
        ELSE IF ContainsAny(question_lower, financial_keywords) THEN "financial"
        ELSE "general"

\* The customer/supplier test moved in front of the domain keyword tests.
detect_domain_customer_first(question) ==
    LET question_lower == Lower(question)
    IN  IF ContainsAny(question_lower, customer_supplier_keywords)
        THEN IF ContainsAny(question_lower, inventory_context_keywords)
             THEN "inventory" ELSE "general"
        ELSE IF ContainsAny(question_lower, hr_keywords) THEN "hr"
        ELSE IF ContainsAny(question_lower, inventory_keywords) THEN "inventory"
        ELSE IF ContainsAny(question_lower, financial_keywords) THEN "financial"
        ELSE IF ContainsAny(question_lower, reporting_keywords) THEN "reporting"
        ELSE "general"

detect_domain_from_question(question) ==
    LET question_lower == Lower(question)
    IN  IF ContainsAny(question_lower, hr_keywords) THEN "hr"
        ELSE IF ContainsAny(question_lower, inventory_keywords) THEN "inventory"
        ELSE IF ContainsAny(question_lower, financial_keywords) THEN "financial"
        ELSE IF ContainsAny(question_lower, reporting_keywords) THEN "reporting"
        ELSE IF ContainsAny(question_lower, core_entity_keywords) THEN "general"
        ELSE IF ContainsAny(question_lower, customer_supplier_keywords)
             THEN IF ContainsAny(question_lower, inventory_context_keywords)
                  THEN "inventory"
                  ELSE "general"
        ELSE "general"

---------------------------------------------------------------------------
(* The classifier harness: a question is drawn, then classified. *)

\* Words the harness builds its questions from; some hold a keyword only as
\* a substring ("three" holds "hr", "border" holds "order").
Vocabulary ==
    { <<"C","u","s","t","o","m","e","r","s">>, <<"s","u","p","p","l","i","e","r">>, <<"p","r","o","d","u","c","t","s">>, <<"S","a","l","e","s">>, <<"b","o","r","d","e","r">>,
      <<"i","t","e","m","s">>, <<"p","a","y","r","o","l","l">>, <<"t","h","r","e","e">>, <<"i","n","v","o","i","c","e">>, <<"r","e","p","o","r","t">>,
      <<"u","s","e","r","s">>, <<"a","l","l">> }

MaxWords == 2

RECURSIVE Sentences(_)
\* The questions of exactly n words, joined by single spaces.
Sentences(n) ==
    IF n = 1 THEN Vocabulary
    ELSE {s \o <<" ">> \o w : s \in Sentences(n - 1), w \in Vocabulary}

\* The questions classified: the sentences of the vocabulary and a question
\* of the test script.
DomainQuestions ==
    UNION {Sentences(n) : n \in 1..MaxWords}
        \cup {<<"G","e","n","e","r","a","t","e"," ","a"," ","s","a","l","e","s"," ","r","e","p","o","r","t">>}

InitDomain ==
    /\ dq \in DomainQuestions
    /\ dres = "none"
    /\ ProcessJustStarted
    /\ TurnAtRest

Classify ==
    /\ dres = "none"
    /\ dres' = detect_domain_from_question(dq)
    /\ UNCHANGED <<dq, caches, turn>>

NextDomain ==
    Classify

SpecDomain ==
    InitDomain /\ [][NextDomain]_vars

---------------------------------------------------------------------------
(* Claims about the domain classifier, checked under SpecDomain. *)

MentionsCustomerOrSupplier(q) ==
    ContainsAny(Lower(q), customer_supplier_keywords)

HasInventoryContext(q) ==
    ContainsAny(Lower(q), inventory_context_keywords)

\* The keyword sets in their priority order, each with the domain it yields.
KeywordSetsByPriority ==
    << [domain |-> "hr",        keywords |-> hr_keywords],
       [domain |-> "inventory", keywords |-> inventory_keywords],
       [domain |-> "financial", keywords |-> financial_keywords],
       [domain |-> "reporting", keywords |-> reporting_keywords],
       [domain |-> "general",   keywords |-> core_entity_keywords] >>

MatchingSets(q) ==
    {i \in DOMAIN KeywordSetsByPriority :
        ContainsAny(Lower(q), KeywordSetsByPriority[i].keywords)}

FirstMatchingSet(q) ==
    CHOOSE i \in MatchingSets(q) : \A j \in MatchingSets(q) : i <= j

---------------------------------------------------------------------------
(* DomainAnalyzer: the indexes built at construction and the resolver. *)

Digits ==
    {"0","1","2","3","4","5","6","7","8","9"}

\* the characters the regular expression class \w matches
WordChars ==
    {LowerLetters[i] : i \in DOMAIN LowerLetters}
        \cup {UpperLetters[i] : i \in DOMAIN UpperLetters}
        \cup Digits \cup {"_"}

\* The maximal runs of s made of characters of chars (within) or of
\* characters outside chars (~within).
MaximalRuns(s, chars, within) ==
    LET inClass(c) == (c \in chars) = within
    IN  {SubSeq(s, p[1], p[2]) : p \in
            {q \in (1..Len(s)) \X (1..Len(s)) :
                /\ q[1] <= q[2]
                /\ \A k \in q[1]..q[2] : inClass(s[k])
                /\ (q[1] = 1 \/ ~inClass(s[q[1] - 1]))
                /\ (q[2] = Len(s) \/ ~inClass(s[q[2] + 1]))}}

\* re.split(r'[_\s]', s), less the empty parts
SplitParts(s) ==
    MaximalRuns(s, {"_"} \cup Whitespace, FALSE)

\* re.findall(r'\w{3,}', s)
QuestionWords(s) ==
    {w \in MaximalRuns(s, WordChars, TRUE) : Len(w) >= 3}

_classify_domain(table_name) ==
    LET table_lower == Lower(table_name)
    IN  IF \/ StartsWith(table_lower, <<"h","r","_">>)
           \/ ContainsAny(table_lower, {<<"e","m","p","l","o","y","e","e">>, <<"a","t","t","e","n","d","a","n","c","e">>,
                                        <<"l","e","a","v","e">>, <<"p","a","y","r","o","l","l">>, <<"s","h","i","f","t">>})
        THEN "hr"
        ELSE IF \/ StartsWith(table_lower, <<"i","n","v","_">>)
                \/ ContainsAny(table_lower, {<<"p","r","o","d","u","c","t">>, <<"s","t","o","c","k">>, <<"s","a","l","e","s">>,
                                 <<"p","u","r","c","h","a","s","e">>, <<"i","n","v","e","n","t","o","r","y">>, <<"i","t","e","m">>})
        THEN "inventory"
        ELSE IF \/ StartsWith(table_lower, <<"c","o","r","e","_","f","i","n","_">>)
                \/ ContainsAny(table_lower, {<<"a","c","c","o","u","n","t">>, <<"t","r","a","n","s","a","c","t","i","o","n">>,
                                 <<"p","a","y","m","e","n","t">>, <<"i","n","v","o","i","c","e">>, <<"b","a","n","k">>})
        THEN "financial"
        ELSE IF \/ StartsWith(table_lower, <<"r","e","p","o","r","t">>)
                \/ table_lower \in {<<"r","e","p","o","r","t","s">>, <<"c","h","a","r","t","s">>, <<"d","a","s","h","b","o","a","r","d","s">>,
                                    <<"a","n","a","l","y","t","i","c","s">>}
        THEN "reporting"
        ELSE "core"

\* The (keyword, table) pairs one business term adds to keyword_index.
KeywordEntriesOf(term) ==
    LET table == Lower(term.table)
        business_name == Lower(term.business_name)
    IN  {<<part, table>> : part \in {x \in SplitParts(table) : Len(x) > 2}}
        \cup {<<part, table>> :
                 part \in {x \in SplitParts(business_name) : Len(x) > 2}}
        \cup {<<table, table>>, <<business_name, table>>}
        \cup {<<IF EndsWith(business_name, <<"s">>)
                THEN SubSeq(business_name, 1, Len(business_name) - 1)
                ELSE business_name \o <<"s">>, table>>}

\* DomainAnalyzer.__init__: _build_indexes over the loaded business terms,
\* a set of [table, business_name] records (empty when loading failed).
DomainAnalyzer(business_terms) ==
    LET entries == UNION {KeywordEntriesOf(t) : t \in business_terms}
                     \cup {<<<<"s","u","p","p","l","i","e","r","s">>, <<"c","o","r","e","_","p","a","r","t","i","e","s">>>>,
                           <<<<"s","u","p","p","l","i","e","r">>, <<"c","o","r","e","_","p","a","r","t","i","e","s">>>>}
        reverse == {<<Lower(t.business_name), Lower(t.table)>> : t \in business_terms}
        reverse_keys == {r[1] : r \in reverse} \ {<<"s","u","p","p","l","i","e","r","s">>, <<"s","u","p","p","l","i","e","r">>}
        domains == {_classify_domain(t.table) : t \in business_terms}
    IN  [ business_terms |-> business_terms,
          table_map |->
              [k \in {Lower(t.table) : t \in business_terms} |->
                  Lower((CHOOSE t \in business_terms : Lower(t.table) = k).business_name)],
          reverse_table_map |->
              [k \in reverse_keys \cup {<<"s","u","p","p","l","i","e","r","s">>, <<"s","u","p","p","l","i","e","r">>} |->
                  IF k \in {<<"s","u","p","p","l","i","e","r","s">>, <<"s","u","p","p","l","i","e","r">>} THEN <<"c","o","r","e","_","p","a","r","t","i","e","s">>
                  ELSE (CHOOSE r \in reverse : r[1] = k)[2]],
          domain_tables |->
              [d \in domains |->
                  {Lower(t.table) : t \in {u \in business_terms :
                                              _classify_domain(u.table) = d}}],
          keyword_index |->
              [k \in {e[1] : e \in entries} |->
                  {e[2] : e \in {x \in entries : x[1] = k}}] ]

Max(a, b) ==
    IF a >= b THEN a ELSE b

RECURSIVE LcsRow(_, _, _, _, _)
\* One row of the longest-common-subsequence table: prev is the row above,
\* acc the part of this row already known; row[k] is the entry for the first
\* k - 1 characters of b.  (Testing Len(acc) has the row computed step by
\* step rather than as one nested expression.)
LcsRow(prev, a, b, j, acc) ==
    IF j > Len(b) \/ Len(acc) # j THEN acc
    ELSE LcsRow(prev, a, b, j + 1,
                Append(acc, IF a = b[j] THEN prev[j] + 1
                            ELSE Max(prev[j + 1], acc[j])))

RECURSIVE LcsRows(_, _, _, _)
LcsRows(a, b, i, prev) ==
    IF i > Len(a) \/ Len(prev) # Len(b) + 1 THEN prev[Len(b) + 1]
    ELSE LcsRows(a, b, i + 1, LcsRow(prev, a[i], b, 1, <<0>>))

LcsLength(a, b) ==
    LcsRows(a, b, 1, [k \in 1..(Len(b) + 1) |-> 0])

\* rapidfuzz.fuzz.ratio(a, b) >= threshold: the ratio is the normalized
\* Indel similarity, 100 * 2 * lcs / (len(a) + len(b)), and 100 for two
\* empty strings.
FuzzRatioAtLeast(a, b, threshold) ==
    IF Len(a) + Len(b) = 0 THEN 100 >= threshold
    ELSE 200 * LcsLength(a, b) >= threshold * (Len(a) + Len(b))

default_threshold == 75

\* pass 1: keywords occurring in the lowercased question
ExactPassTables(analyzer, question_lower) ==
    UNION {analyzer.keyword_index[term] :
              term \in {k \in DOMAIN analyzer.keyword_index :
                           Contains(question_lower, k)}}

\* pass 2: keywords similar to a word of the question
FuzzyPassTables(analyzer, question_lower, threshold) ==
    UNION {analyzer.keyword_index[term] :
              term \in {k \in DOMAIN analyzer.keyword_index :
                           \E word \in QuestionWords(question_lower) :
                               FuzzRatioAtLeast(word, k, threshold)}}

\* pass 3: domains one of whose underscore-separated words is in the question
DomainPassTables(analyzer, question_lower) ==
    LET underscoreParts(d) ==
            IF d = <<>> THEN {<<>>} ELSE MaximalRuns(d, {"_"}, FALSE)
        domain_name(d) ==
            CASE d = "hr" -> <<"h","r">> [] d = "inventory" -> <<"i","n","v","e","n","t","o","r","y">>
              [] d = "financial" -> <<"f","i","n","a","n","c","i","a","l">>
              [] d = "reporting" -> <<"r","e","p","o","r","t","i","n","g">> [] OTHER -> <<"c","o","r","e">>
    IN  UNION {analyzer.domain_tables[d] :
                  d \in {x \in DOMAIN analyzer.domain_tables :
                            \E dw \in underscoreParts(domain_name(x)) :
                                Contains(question_lower, dw)}}

\* find_relevant_tables in which a later pass is consulted only when the
\* passes before it matched nothing
find_relevant_tables_first_pass_only(analyzer, question, threshold) ==
    LET question_lower == Lower(question)
        exact == ExactPassTables(analyzer, question_lower)
        fuzzy == FuzzyPassTables(analyzer, question_lower, threshold)
        matched_tables ==
            IF exact # {} THEN exact
            ELSE IF fuzzy # {} THEN fuzzy
            ELSE DomainPassTables(analyzer, question_lower)
    IN  {IF table \in DOMAIN analyzer.reverse_table_map
         THEN analyzer.reverse_table_map[table]
         ELSE table : table \in matched_tables}

find_relevant_tables(analyzer, question, threshold) ==
    LET question_lower == Lower(question)
        matched_tables ==
            ExactPassTables(analyzer, question_lower)
                \cup FuzzyPassTables(analyzer, question_lower, threshold)
                \cup DomainPassTables(analyzer, question_lower)
    IN  {IF table \in DOMAIN analyzer.reverse_table_map
         THEN analyzer.reverse_table_map[table]
         ELSE table : table \in matched_tables}

get_fallback_tables_for_domain(domain, all_tables) ==
    LET FirstThree(tables) ==
            IF Cardinality(tables) <= 3 THEN tables
            ELSE CHOOSE sub \in SUBSET tables : Cardinality(sub) = 3
    IN  CASE domain = "inventory" ->
                FirstThree({t \in all_tables : StartsWith(t, <<"i","n","v","_">>)})
          [] domain = "hr" ->
                FirstThree({t \in all_tables : StartsWith(t, <<"h","r","_">>)})
          [] domain = "financial" ->
                FirstThree({t \in all_tables : StartsWith(t, <<"c","o","r","e","_","f","i","n","_">>)})
          [] OTHER ->
                {t \in {<<"e","m","p","l","o","y","e","e","s">>, <<"p","r","o","d","u","c","t","s">>, <<"s","a","l","e","s">>, <<"p","a","y","m","e","n","t","s">>,
                        <<"u","s","e","r","s">>, <<"a","c","c","o","u","n","t","s">>} : t \in all_tables}

\* business_terms.json as deployed: three tables with their business names.
SampleBusinessTerms ==
    { [table |-> <<"e","m","p","l","o","y","e","e","s">>,    business_name |-> <<"S","t","a","f","f">>],
      [table |-> <<"i","n","v","_","p","r","o","d","u","c","t","s">>, business_name |-> <<"P","r","o","d","u","c","t","s">>],
      [table |-> <<"c","o","r","e","_","p","a","r","t","i","e","s">>, business_name |-> <<"C","u","s","t","o","m","e","r","s">>] }

---------------------------------------------------------------------------
(* Values of the pipeline. *)

\* What live introspection of the database yields: every table entry is
\* built by get_database_schema itself and is well formed.
LiveSchema ==
    [tables |-> {<<"e","m","p","l","o","y","e","e","s">>, <<"i","n","v","_","p","r","o","d","u","c","t","s">>, <<"c","o","r","e","_","p","a","r","t","i","e","s">>},
     malformed |-> {}]

\* A schema_<database> entry that another writer left in the shared external
\* cache: the inv_products entry has no 'foreign_keys'.
ForeignSchema ==
    [tables |-> {<<"e","m","p","l","o","y","e","e","s">>, <<"i","n","v","_","p","r","o","d","u","c","t","s">>, <<"c","o","r","e","_","p","a","r","t","i","e","s">>},
     malformed |-> {<<"i","n","v","_","p","r","o","d","u","c","t","s">>}]

\* The contents of business_terms.json when _load_business_terms reads it.
BusinessTermSources ==
    {{}, SampleBusinessTerms}

\* The contents of business_terms.json in the deployment that serves the
\* requests.
DeployedBusinessTerms ==
    {SampleBusinessTerms}

\* The questions posted to /chat and /batch_chat.
ChatQuestions ==
    { <<" "," ">>,
      <<"W","h","a","t","'","s"," ","t","h","e"," ","p","a","s","s","w","o","r","d"," ","f","o","r"," ","a","d","m","i","n">>,
      <<"S","h","o","w"," ","m","e"," ","t","h","e"," ","T","O","K","E","N">>,
      <<"S","h","o","w"," ","m","e"," ","a"," ","p","i","e"," ","c","h","a","r","t"," ","o","f"," ","s","a","l","e","s"," ","b","y"," ","c","a","t","e","g","o","r","y">>,
      <<"H","e","l","l","o">>,
      <<"d","r","a","w"," ","t","h","e"," ","r","e","l","a","t","i","o","n","s","h","i","p"," ","d","i","a","g","r","a","m">>,
      <<"s","h","o","w"," ","s","c","h","e","m","a"," ","o","f"," ","t","a","b","l","e"," ","e","m","p","l","o","y","e","e","s">>,
      <<"l","i","s","t"," ","c","o","l","u","m","n","s">> }

\* The questions of a batch posted to /batch_chat.
BatchQuestions ==
    { <<" "," ">>,
      <<"S","h","o","w"," ","m","e"," ","t","h","e"," ","T","O","K","E","N">>,
      <<"S","h","o","w"," ","m","e"," ","a"," ","p","i","e"," ","c","h","a","r","t"," ","o","f"," ","s","a","l","e","s"," ","b","y"," ","c","a","t","e","g","o","r","y">>,
      <<"H","e","l","l","o">> }

\* The questions handed to generate_sql_token_optimized one call at a time:
\* the empty question, and a question of every domain.
GenerateQuestions ==
    { <<>>,
      <<"H","e","l","l","o">>,
      <<"s","h","o","w"," ","c","u","s","t","o","m","e","r","s">>,
      <<"e","m","p","l","o","y","e","e"," ","m","e","t","r","i","c">>,
      <<"S","h","o","w"," ","m","e"," ","a"," ","p","i","e"," ","c","h","a","r","t"," ","o","f"," ","s","a","l","e","s"," ","b","y"," ","c","a","t","e","g","o","r","y">>,
      <<"l","i","s","t"," ","i","n","v","o","i","c","e"," ","t","o","t","a","l","s">>,
      <<"m","o","n","t","h","l","y"," ","r","e","p","o","r","t">> }

\* The questions whose query result is formatted: one for every
\* presentation kind.
FormatQuestions ==
    { <<"S","h","o","w"," ","m","e"," ","a"," ","p","i","e"," ","c","h","a","r","t"," ","o","f"," ","s","a","l","e","s"," ","b","y"," ","c","a","t","e","g","o","r","y">>,
      <<"b","a","r"," ","c","h","a","r","t"," ","o","f"," ","s","a","l","a","r","i","e","s">>,
      <<"l","i","n","e"," ","d","i","a","g","r","a","m"," ","o","f"," ","r","e","v","e","n","u","e">>,
      <<"s","c","a","t","t","e","r"," ","p","l","o","t"," ","o","f"," ","p","r","i","c","e">>,
      <<"e","m","p","l","o","y","e","e"," ","m","e","t","r","i","c">>,
      <<"t","o","t","a","l"," ","a","s"," ","a"," ","c","a","r","d">>,
      <<"H","e","l","l","o">>,
      <<"l","i","s","t"," ","a","l","l"," ","t","a","b","l","e","s">>,
      <<"B","a","r"," ","C","h","a","r","t"," ","a","n","d"," ","p","i","e"," ","c","h","a","r","t">>,
      <<"m","e","t","r","i","c"," ","a","s"," ","l","i","n","e"," ","d","i","a","g","r","a","m">>,
      <<"s","c","a","t","t","e","r"," ","c","h","a","r","t"," ","o","f"," ","c","a","r","d","s">> }

\* What the completion service answers to the SQL prompt (message.content).
CompletionOutputs ==
    { <<BackQuote,BackQuote,BackQuote,"s","q","l","\n","S","E","L","E","C","T"," ","1","\n",BackQuote,BackQuote,BackQuote>>,
      <<" "," ","S","E","L","E","C","T"," ","1","\n">>,
      <<"D","R","O","P"," ","T","A","B","L","E"," ","x">>,
      <<"-","-","E","R","R","O","R">>,
      <<"s","e","l","e","c","t"," ","*"," ","f","r","o","m"," ","T","a","b","l","e","_","N","a","m","e">>,
      <<>> }

\* A DataFrame, as far as the formatters look at it: its shape and the
\* number of its numeric columns.
DataFrames ==
    { [nrows |-> 0, ncols |-> 1, numeric |-> 0],
      [nrows |-> 1, ncols |-> 1, numeric |-> 1] }

\* The DataFrames handed to the formatters: a result without rows has no
\* numeric data.
FormatDataFrames ==
    { f \in [nrows : 0..2, ncols : 1..2, numeric : 0..2] :
          f.numeric <= f.ncols /\ (f.nrows = 0 => f.numeric = 0) }

\* df.empty
IsEmpty(df) ==
    df.nrows = 0 \/ df.ncols = 0

\* The text of the exception the query executor can raise.
ErrorMessages ==
    { <<"(","1","0","5","4",","," ","\"","U","n","k","n","o","w","n"," ","c","o","l","u","m","n","\"",")">>,
      <<"N","o"," ","S","u","c","h"," ","C","o","l","u","m","n",":"," ","x">>,
      <<"(","1","0","6","4",","," ","\"","s","y","n","t","a","x"," ","e","r","r","o","r","\"",")">> }

CACHE_EXPIRY_MINUTES == 60

\* The minutes that pass in one step of the clock.
TickMinutes == 30

---------------------------------------------------------------------------
(* utils/chat_processor.py and the keyword tests of app/routes/chat.py *)

sensitive_keywords ==
    { <<"p","a","s","s","w","o","r","d">>, <<"p","a","s","s","w","d">>, <<"s","e","c","r","e","t">>, <<"c","r","e","d","e","n","t","i","a","l">>, <<"t","o","k","e","n">> }

\* the test made on the question as typed, without lowercasing it
check_sensitive_content_case_sensitive(question) ==
    ContainsAny(question, sensitive_keywords)

check_sensitive_content(question) ==
    ContainsAny(Lower(question), sensitive_keywords)

IsRelationshipDiagramRequest(question) ==
    LET q_lower == Lower(question)
    IN  /\ Contains(q_lower, <<"r","e","l","a","t","i","o","n","s","h","i","p">>)
        /\ ContainsAny(q_lower, {<<"d","i","a","g","r","a","m">>, <<"d","r","a","w">>, <<"p","i","c","t","u","r","e">>})

IsTableSchemaDiagramRequest(question) ==
    LET q_lower == Lower(question)
    IN  /\ Contains(q_lower, <<"t","a","b","l","e">>)
        /\ ContainsAny(q_lower, {<<"d","i","a","g","r","a","m">>, <<"d","r","a","w">>, <<"p","i","c","t","u","r","e">>, <<"s","c","h","e","m","a">>})

\* the retried-error test answering for every error
IsSchemaMismatch_any_error(error_message) ==
    TRUE

\* the test of _handle_sql_query for the one error class that is retried
IsSchemaMismatch(error_message) ==
    \/ Contains(error_message, <<"1","0","5","4">>)
    \/ Contains(Lower(error_message), <<"n","o"," ","s","u","c","h"," ","c","o","l","u","m","n">>)

\* The inline classification with the card test made first.
ResponseTypeOf_card_first(question) ==
    LET q_lower == Lower(question)
    IN  IF ContainsAny(q_lower, {<<"c","a","r","d">>, <<"m","e","t","r","i","c">>}) THEN "card"
        ELSE IF ContainsAny(q_lower, {<<"p","i","e"," ","c","h","a","r","t">>, <<"p","i","e"," ","d","i","a","g","r","a","m">>}) THEN "pie"
        ELSE IF ContainsAny(q_lower, {<<"b","a","r"," ","c","h","a","r","t">>, <<"b","a","r"," ","d","i","a","g","r","a","m">>}) THEN "bar"
        ELSE IF ContainsAny(q_lower, {<<"l","i","n","e"," ","c","h","a","r","t">>, <<"l","i","n","e"," ","d","i","a","g","r","a","m">>}) THEN "line"
        ELSE IF ContainsAny(q_lower, {<<"s","c","a","t","t","e","r"," ","p","l","o","t">>, <<"s","c","a","t","t","e","r"," ","c","h","a","r","t">>,
                                      <<"s","c","a","t","t","e","r"," ","d","i","a","g","r","a","m">>}) THEN "scatter"
        ELSE "table"

\* the inline classification of _process_query_result
ResponseTypeOf(question) ==
    LET q_lower == Lower(question)
    IN  IF ContainsAny(q_lower, {<<"p","i","e"," ","c","h","a","r","t">>, <<"p","i","e"," ","d","i","a","g","r","a","m">>}) THEN "pie"
        ELSE IF ContainsAny(q_lower, {<<"b","a","r"," ","c","h","a","r","t">>, <<"b","a","r"," ","d","i","a","g","r","a","m">>}) THEN "bar"
        ELSE IF ContainsAny(q_lower, {<<"l","i","n","e"," ","c","h","a","r","t">>, <<"l","i","n","e"," ","d","i","a","g","r","a","m">>}) THEN "line"
        ELSE IF ContainsAny(q_lower, {<<"s","c","a","t","t","e","r"," ","p","l","o","t">>, <<"s","c","a","t","t","e","r"," ","c","h","a","r","t">>,
                                      <<"s","c","a","t","t","e","r"," ","d","i","a","g","r","a","m">>}) THEN "scatter"
        ELSE IF ContainsAny(q_lower, {<<"c","a","r","d">>, <<"m","e","t","r","i","c">>}) THEN "card"
        ELSE "table"

\* ChatProcessor.determine_response_type_from_keywords
determine_response_type_from_keywords(question) ==
    LET q_lower == Lower(question)
    IN  IF Contains(q_lower, <<"p","i","e"," ","c","h","a","r","t">>) \/ Contains(q_lower, <<"p","i","e"," ","d","i","a","g","r","a","m">>)
        THEN "pie"
        ELSE IF Contains(q_lower, <<"b","a","r"," ","c","h","a","r","t">>) \/ Contains(q_lower, <<"b","a","r"," ","d","i","a","g","r","a","m">>)
        THEN "bar"
        ELSE IF Contains(q_lower, <<"l","i","n","e"," ","c","h","a","r","t">>) \/ Contains(q_lower, <<"l","i","n","e"," ","d","i","a","g","r","a","m">>)
        THEN "line"
        ELSE IF \/ Contains(q_lower, <<"s","c","a","t","t","e","r"," ","p","l","o","t">>)
                \/ Contains(q_lower, <<"s","c","a","t","t","e","r"," ","c","h","a","r","t">>)
                \/ Contains(q_lower, <<"s","c","a","t","t","e","r"," ","d","i","a","g","r","a","m">>)
        THEN "scatter"
        ELSE IF Contains(q_lower, <<"c","a","r","d">>) \/ Contains(q_lower, <<"m","e","t","r","i","c">>)
        THEN "card"
        ELSE "table"

\* the doc-keyword test of _handle_non_sql_query
IsDocKeywordQuestion(question) ==
    ContainsAny(Lower(question),
        {<<"t","a","b","l","e">>, <<"c","o","l","u","m","n">>, <<"s","c","h","e","m","a">>, <<"s","t","r","u","c","t","u","r","e">>, <<"d","a","t","a","b","a","s","e">>,
         <<"l","i","s","t">>, <<"d","e","s","c","r","i","b","e">>, <<"d","o","c","u","m","e","n","t","a","t","i","o","n">>, <<"m","e","t","a","d","a","t","a">>})

---------------------------------------------------------------------------
(* utils/data_processor.py and utils/response_formatter.py *)

\* The methods class DataProcessor defines; calling any other name on the
\* data service raises AttributeError.
DataProcessorMethods ==
    { "sanitize_dataframe_for_json", "validate_and_sanitize_results",
      "format_compact_schema", "format_card_response",
      "format_database_documentation_response", "format_text_response",
      "generate_nl_from_data", "clean_for_json",
      "extract_relevant_tables_columns" }

\* data_service.<method>(...) raises AttributeError
RaisesAttributeError(method) ==
    method \notin DataProcessorMethods

\* ResponseFormatter.format_card_response: None, or the kind of cards built
format_card_response(df) ==
    IF IsEmpty(df) THEN "None"
    ELSE IF df.nrows = 1 /\ df.ncols = 1 THEN "single_metric"
    ELSE "cards"

---------------------------------------------------------------------------
(* utils/database_manager.py: prompt building and post-processing *)

\* format_compact_schema over the relevant tables that are in the schema:
\* reading a malformed entry raises.
format_compact_schema_raises(schema_info, relevant_tables) ==
    (relevant_tables \cap schema_info.tables \cap schema_info.malformed) # {}

placeholders ==
    { <<"y","o","u","r","_","t","a","b","l","e","_","n","a","m","e">>, <<"y","o","u","r","_","c","o","l","u","m","n","_","n","a","m","e">>, <<"t","a","b","l","e","_","n","a","m","e">>,
      <<"c","o","l","u","m","n","_","n","a","m","e">> }

\* sql = content.strip(), less a Markdown code fence
StripFence(content) ==
    LET sql == Strip(content)
    IN  IF StartsWith(sql, <<BackQuote,BackQuote,BackQuote,"s","q","l">>) THEN Strip(SliceFromTo(sql, 6, 3))
        ELSE IF StartsWith(sql, <<BackQuote,BackQuote,BackQuote>>) THEN Strip(SliceFromTo(sql, 3, 3))
        ELSE sql

IsSelect(sql) ==
    StartsWith(Lower(Strip(sql)), <<"s","e","l","e","c","t">>)

\* post-processing without the placeholder test
PostProcess_no_placeholder_test(content) ==
    LET sql == StripFence(content)
    IN  [ cache_write |-> IF StartsWith(sql, <<"-","-","E","R","R","O","R">>) THEN None ELSE sql,
          result      |-> IF IsSelect(sql) THEN sql ELSE None ]

\* Lines 566-583 of generate_sql_token_optimized on the completion's content:
\* the string written to the generated-SQL cache (None: no write) and the
\* string returned (None: no SQL).
PostProcess(content) ==
    LET sql == StripFence(content)
    IN  IF ContainsAny(Lower(sql), placeholders)
        THEN [cache_write |-> None, result |-> None]
        ELSE [ cache_write |-> IF ~StartsWith(sql, <<"-","-","E","R","R","O","R">>) THEN sql ELSE None,
               result      |-> IF ~IsSelect(sql) THEN None
                               ELSE IF ~StartsWith(sql, <<"-","-","E","R","R","O","R">>) THEN sql
                               ELSE None ]

---------------------------------------------------------------------------
(* utils/database_manager.py: the schema source, the pipeline, the executor *)

\* redis_get / redis_set reach the cache service during a call only when a
\* client exists; every call to an unreachable service raises, which both
\* functions swallow.
Reachability ==
    IF redis_client = "None" THEN {FALSE} ELSE BOOLEAN

\* get_database_schema with the age test of the in-process entry admitting
\* an entry that is exactly CACHE_EXPIRY_MINUTES old.
get_database_schema_age_inclusive(external, in_process, cache_ok, introspect_ok) ==
    IF cache_ok /\ external # Nothing
    THEN [schema |-> external, external |-> external,
          in_process |-> in_process, introspected |-> FALSE]
    ELSE IF in_process # Nothing /\ in_process.age <= CACHE_EXPIRY_MINUTES
    THEN [schema |-> in_process.schema, external |-> external,
          in_process |-> in_process, introspected |-> FALSE]
    ELSE IF introspect_ok
    THEN [schema |-> LiveSchema,
          external |-> IF cache_ok THEN LiveSchema ELSE external,
          in_process |-> [schema |-> LiveSchema, age |-> 0],
          introspected |-> TRUE]
    ELSE [schema |-> Nothing, external |-> external,
          in_process |-> in_process, introspected |-> TRUE]

\* get_database_schema returning the expired in-process snapshot when live
\* introspection fails.
get_database_schema_stale_on_failure(external, in_process, cache_ok, introspect_ok) ==
    IF cache_ok /\ external # Nothing
    THEN [schema |-> external, external |-> external,
          in_process |-> in_process, introspected |-> FALSE]
    ELSE IF in_process # Nothing /\ in_process.age < CACHE_EXPIRY_MINUTES
    THEN [schema |-> in_process.schema, external |-> external,
          in_process |-> in_process, introspected |-> FALSE]
    ELSE IF introspect_ok
    THEN [schema |-> LiveSchema,
          external |-> IF cache_ok THEN LiveSchema ELSE external,
          in_process |-> [schema |-> LiveSchema, age |-> 0],
          introspected |-> TRUE]
    ELSE [schema |-> IF in_process # Nothing THEN in_process.schema
                     ELSE Nothing,
          external |-> external,
          in_process |-> in_process, introspected |-> TRUE]

\* get_database_schema dropping the in-process entry when live
\* introspection fails
get_database_schema_clears_on_failure(external, in_process, cache_ok, introspect_ok) ==
    IF cache_ok /\ external # Nothing
    THEN [schema |-> external, external |-> external,
          in_process |-> in_process, introspected |-> FALSE]
    ELSE IF in_process # Nothing /\ in_process.age < CACHE_EXPIRY_MINUTES
    THEN [schema |-> in_process.schema, external |-> external,
          in_process |-> in_process, introspected |-> FALSE]
    ELSE IF introspect_ok
    THEN [schema |-> LiveSchema,
          external |-> IF cache_ok THEN LiveSchema ELSE external,
          in_process |-> [schema |-> LiveSchema, age |-> 0],
          introspected |-> TRUE]
    ELSE [schema |-> Nothing, external |-> external,
          in_process |-> Nothing, introspected |-> TRUE]

\* get_database_schema on the two cache tiers: the snapshot returned
\* (Nothing: null) and the tiers afterwards.
get_database_schema(external, in_process, cache_ok, introspect_ok) ==
    IF cache_ok /\ external # Nothing
    THEN [schema |-> external, external |-> external,
          in_process |-> in_process, introspected |-> FALSE]
    ELSE IF in_process # Nothing /\ in_process.age < CACHE_EXPIRY_MINUTES
    THEN [schema |-> in_process.schema, external |-> external,
          in_process |-> in_process, introspected |-> FALSE]
    ELSE IF introspect_ok
    THEN [schema |-> LiveSchema,
          external |-> IF cache_ok THEN LiveSchema ELSE external,
          in_process |-> [schema |-> LiveSchema, age |-> 0],
          introspected |-> TRUE]
    ELSE [schema |-> Nothing, external |-> external,
          in_process |-> in_process, introspected |-> TRUE]

\* get_domain_analyzer: the singleton, built from the business terms loaded
\* at the first call.
get_domain_analyzer(instance, loaded) ==
    IF instance = Nothing THEN [business_terms |-> loaded] ELSE instance

StrippedQuestions ==
    {Strip(q) : q \in ChatQuestions} \cup GenerateQuestions \cup FormatQuestions

\* The analyzers that can be built, and what they answer for the questions
\* of this model.
AnalyzerOf ==
    [bt \in BusinessTermSources |-> DomainAnalyzer(bt)]

DetectedDomainOf ==
    [q \in StrippedQuestions |-> detect_domain_from_question(q)]

RelevantTablesOf ==
    [bt \in BusinessTermSources |->
        [q \in StrippedQuestions |->
            find_relevant_tables(AnalyzerOf[bt], q, default_threshold)]]

\* What the code computes from the texts of this model, tabulated: from a
\* posted question, from a completion, from a statement and from an error.
QuestionFacts ==
    [q \in ChatQuestions |->
        LET stripped == Strip(q)
        IN  [ stripped |-> stripped,
              sensitive |-> check_sensitive_content(stripped),
              relationship_diagram |-> IsRelationshipDiagramRequest(stripped),
              table_schema_diagram |-> IsTableSchemaDiagramRequest(stripped) ]]

PostProcessOf ==
    [content \in CompletionOutputs |-> PostProcess(content)]

Statements ==
    {PostProcessOf[content].cache_write : content \in CompletionOutputs} \ {None}

IsSelectOf ==
    [statement \in Statements |-> IsSelect(statement)]

IsSchemaMismatchOf ==
    [error_message \in ErrorMessages |-> IsSchemaMismatch(error_message)]

\* the relevant tables after the fallback of the pipeline
PromptTables(schema_info, domain, relevant_tables) ==
    IF relevant_tables = {} /\ domain # "general"
    THEN get_fallback_tables_for_domain(domain, schema_info.tables)
    ELSE relevant_tables

\* redis_set dropping the entry it is given
CacheSet_dropped(cache, key, value) ==
    cache

\* a cache of the external service with the entry key -> value set
CacheSet(cache, key, value) ==
    [k \in DOMAIN cache \cup {key} |-> IF k = key THEN value ELSE cache[k]]

\* a cache of the external service less the entry of key
CacheDel(cache, key) ==
    [k \in DOMAIN cache \ {key} |-> cache[k]]

\* generate_sql_token_optimized.  completion is the content the completion
\* service answers, None when the call raises.  The result holds the SQL
\* returned (None: no SQL), whether an exception left the function, the
\* caches afterwards and a record of what the call did.
generate_sql_token_optimized(q, external, in_process, llm_cache, instance, loaded, cache_ok, introspect_ok, completion) ==
    LET s == get_database_schema(external, in_process, cache_ok, introspect_ok)
        analyzer == get_domain_analyzer(instance, loaded)
        domain == DetectedDomainOf[q]
        relevant_tables ==
            PromptTables(s.schema, domain,
                         RelevantTablesOf[analyzer.business_terms][q])
        domain_prompt_raises ==
            format_compact_schema_raises(s.schema, relevant_tables)
        fallback_prompt_raises ==
            format_compact_schema_raises(s.schema, relevant_tables)
        llm_cache_key == [question |-> q, tables |-> relevant_tables]
        entry == IF llm_cache_key \in DOMAIN llm_cache
                 THEN llm_cache[llm_cache_key] ELSE None
        cached_sql == IF cache_ok THEN entry ELSE None
        post == PostProcessOf[completion]
        base == [sql |-> None, raised |-> FALSE, external |-> s.external,
                 in_process |-> s.in_process, llm_cache |-> llm_cache,
                 analyzer |-> analyzer,
                 did |-> [stage |-> "no_schema", cache_ok |-> cache_ok,
                          tables |-> {}, rendering_raised |-> FALSE,
                          entry |-> None, content |-> None]]
        prompted == [base EXCEPT !.did.tables = relevant_tables,
                                 !.did.rendering_raised = domain_prompt_raises,
                                 !.did.entry = entry]
    IN  IF s.schema = Nothing
        THEN [base EXCEPT !.analyzer = instance]
        ELSE IF domain_prompt_raises /\ fallback_prompt_raises
        THEN [prompted EXCEPT !.raised = TRUE,
                              !.did.stage = "prompt_raised"]
        ELSE IF Truthy(cached_sql)
        THEN [prompted EXCEPT !.sql = cached_sql,
                              !.did.stage = "cache_hit"]
        ELSE IF completion = None
        THEN [prompted EXCEPT !.did.stage = "completion_raised"]
        ELSE [prompted EXCEPT !.sql = post.result,
                              !.llm_cache =
                                  IF cache_ok /\ post.cache_write # None
                                  THEN CacheSet(llm_cache, llm_cache_key,
                                                post.cache_write)
                                  ELSE llm_cache,
                              !.did.stage = "completed",
                              !.did.content = completion]

\* What the database answers to a statement: a DataFrame or the text of the
\* exception raised; a statement that returns no rows makes read_sql raise.
DatabaseOutcomes(statement) ==
    IF IsSelectOf[statement] THEN DataFrames \cup ErrorMessages
    ELSE ErrorMessages

\* execute_query reading the query-result cache even when the cache
\* service cannot be reached.
execute_query_reads_unreachable_cache(statement, result_cache, cache_ok, outcome) ==
    LET cached == IF statement \in DOMAIN result_cache
                  THEN result_cache[statement] ELSE Nothing
    IN  IF cached # Nothing
        THEN [df |-> cached, err |-> None, result_cache |-> result_cache]
        ELSE IF outcome \in DataFrames
        THEN [df |-> outcome, err |-> None,
              result_cache |-> IF cache_ok
                               THEN CacheSet(result_cache, statement, outcome)
                               ELSE result_cache]
        ELSE [df |-> Nothing, err |-> outcome, result_cache |-> result_cache]

\* execute_query writing what the database answered to the query-result
\* cache, an error included
execute_query_caches_errors(statement, result_cache, cache_ok, outcome) ==
    LET cached == IF cache_ok /\ statement \in DOMAIN result_cache
                  THEN result_cache[statement] ELSE Nothing
        written == IF cache_ok
                   THEN CacheSet(result_cache, statement, outcome)
                   ELSE result_cache
    IN  IF cached # Nothing
        THEN [df |-> cached, err |-> None, result_cache |-> result_cache]
        ELSE IF outcome \in DataFrames
        THEN [df |-> outcome, err |-> None, result_cache |-> written]
        ELSE [df |-> Nothing, err |-> outcome, result_cache |-> written]

\* execute_query: (df, err) and the query-result cache afterwards.
execute_query(statement, result_cache, cache_ok, outcome) ==
    LET cached == IF cache_ok /\ statement \in DOMAIN result_cache
                  THEN result_cache[statement] ELSE Nothing
    IN  IF cached # Nothing
        THEN [df |-> cached, err |-> None, result_cache |-> result_cache]
        ELSE IF outcome \in DataFrames
        THEN [df |-> outcome, err |-> None,
              result_cache |-> IF cache_ok
                               THEN CacheSet(result_cache, statement, outcome)
                               ELSE result_cache]
        ELSE [df |-> Nothing, err |-> outcome, result_cache |-> result_cache]

---------------------------------------------------------------------------
(* app/routes/chat.py: the responses and the formatting of a query result *)

Response(status, type, content) ==
    [status |-> status, type |-> type, content |-> content]

\* the fixed refusal of a sensitive question
Refusal ==
    Response(200, "text", "Sorry, I can't provide sensitive information")

\* the response of the exception handler of chat()
ErrorOccurred ==
    Response(500, "text", "An error occurred")

\* the response of the exception handler of batch_chat()
BatchError ==
    Response(500, "error", "str(e)")

\* ResponseFormatter.generate_visualization returns a chart: plotting raises
\* when the DataFrame has no numeric data to plot, and None is returned.
generate_visualization(frame) ==
    ~IsEmpty(frame) /\ frame.numeric > 0

\* _process_query_result: the response, or Nothing when an exception leaves
\* the function.
_process_query_result(q, frame) ==
    LET response_type == ResponseTypeOf(q)
    IN  IF response_type = "card"
        THEN IF format_card_response(frame) # "None"
             THEN Response(200, "card", format_card_response(frame))
             ELSE IF RaisesAttributeError("dataframe_to_json_safe")
             THEN Nothing
             ELSE Response(200, "table", "dataframe_to_json_safe")
        ELSE IF response_type \in {"bar", "line", "pie", "scatter"}
        THEN IF generate_visualization(frame)
             THEN IF ~IsEmpty(frame)
                        /\ RaisesAttributeError("dataframe_to_json_safe")
                  THEN Nothing
                  ELSE Response(200, "chart", response_type)
             ELSE Response(200, "table", "to_dict")
        ELSE IF response_type = "text"
        THEN Response(200, "text", "format_text_response")
        ELSE IF RaisesAttributeError("dataframe_to_json_safe")
        THEN Response(200, "table", "to_string")
        ELSE Response(200, "table", "dataframe_to_json_safe")

\* _process_query_result for the questions and DataFrames of this model
ProcessQueryResultOf ==
    [q \in StrippedQuestions |->
        [frame \in DataFrames \cup FormatDataFrames |->
            _process_query_result(q, frame)]]

\* handle_documentation_query reads a key that a malformed table entry lacks
handle_documentation_query_raises(q, schema_info) ==
    LET q_lower == Lower(q)
        lists_tables == /\ Contains(q_lower, <<"t","a","b","l","e">>)
                        /\ ContainsAny(q_lower, {<<"l","i","s","t">>, <<"s","h","o","w">>, <<"w","h","a","t">>})
        lists_columns == /\ Contains(q_lower, <<"c","o","l","u","m","n">>)
                         /\ ContainsAny(q_lower, {<<"l","i","s","t">>, <<"s","h","o","w">>})
        structure == ContainsAny(q_lower, {<<"s","c","h","e","m","a">>, <<"s","t","r","u","c","t","u","r","e">>})
        describes == ContainsAny(q_lower, {<<"d","e","s","c","r","i","b","e">>, <<"w","h","a","t"," ","i","s">>})
    IN  /\ ~lists_tables
        /\ ~lists_columns
        /\ \/ structure /\ schema_info.malformed # {}
           \/ /\ ~structure
              /\ describes
              /\ \E t \in schema_info.malformed : Contains(q_lower, Lower(t))

---------------------------------------------------------------------------
(* The requests.  A request advances at its calls to the pipeline and to    *)
(* the executor; what the caches, the completion service and the database   *)
(* answer is drawn at the call.  The SQL a handler holds is gone once its   *)
(* question is answered; the error of the last execution and the error     *)
(* handed to the retry stay until the response is sent.                     *)

\* The questions of one batch request.
MaxBatch == 2

\* The process starts; the external cache may hold a schema entry written
\* by another writer before.
Init ==
    /\ dq = <<>>
    /\ dres = "none"
    /\ redis_client \in {"None", "client"}
    /\ redis_schema \in (IF redis_client = "None" THEN {Nothing}
                         ELSE {Nothing, ForeignSchema})
    /\ redis_llm_sql = <<>>
    /\ redis_queryres = <<>>
    /\ DB_METADATA_CACHE = Nothing
    /\ _domain_analyzer = Nothing
    /\ TurnAtRest

\* where the request stands once its question is answered
Answered ==
    IF endpoint = "batch_chat" /\ batch_left > 1 THEN "batch_loop" ELSE "done"

\* the questions of the batch left once this one is answered
LeftAfterAnswer ==
    IF endpoint = "batch_chat" THEN batch_left - 1 ELSE batch_left

\* the response when _process_query_result returned formatted (Nothing: it
\* raised, and the exception handler of the endpoint answers)
ResponseAfterFormatting(formatted) ==
    IF formatted # Nothing THEN formatted
    ELSE IF endpoint = "chat" THEN ErrorOccurred
    ELSE BatchError

\* chat(), up to the first call it makes
ChatRequest ==
    /\ pc = "idle"
    /\ \E q \in ChatQuestions :
         LET stripped == QuestionFacts[q].stripped
             sensitive == QuestionFacts[q].sensitive
             answered == stripped = <<>> \/ sensitive
         IN  /\ endpoint' = "chat"
             /\ the_question' = stripped
             /\ pc' = IF answered THEN "done"
                      ELSE IF QuestionFacts[q].relationship_diagram
                      THEN "relationship_diagram"
                      ELSE IF QuestionFacts[q].table_schema_diagram
                      THEN "table_schema_diagram"
                      ELSE "generate"
             /\ response' = IF stripped = <<>>
                            THEN Response(400, "error", "Question is required")
                            ELSE IF sensitive THEN Refusal
                            ELSE Nothing
             /\ n_history' = IF stripped # <<>> /\ sensitive THEN 1 ELSE 0
    /\ UNCHANGED <<batch_left, the_error_context, the_sql, the_df, the_err,
                   gen, n_generate, n_execute, n_completion>>
    /\ UNCHANGED <<dvars, caches>>

\* batch_chat(), up to its loop over the questions
BatchRequest ==
    /\ pc = "idle"
    /\ \E valid \in BOOLEAN, n \in 0..MaxBatch,
          cache_ok \in Reachability, introspect_ok \in BOOLEAN :
       \E s \in {get_database_schema(redis_schema, DB_METADATA_CACHE,
                                      cache_ok, introspect_ok)} :
             /\ endpoint' = "batch_chat"
             /\ pc' = IF valid /\ n > 0 THEN "batch_loop" ELSE "done"
             /\ batch_left' = IF valid THEN n ELSE 0
             /\ response' =
                    IF ~valid
                    THEN Response(400, "error", "Request must include a 'questions' list.")
                    ELSE IF n = 0 THEN Response(200, "responses", "")
                    ELSE Nothing
             /\ redis_schema' = IF valid THEN s.external ELSE redis_schema
             /\ DB_METADATA_CACHE' =
                    IF valid THEN s.in_process ELSE DB_METADATA_CACHE
    /\ UNCHANGED <<the_question, the_error_context, the_sql, the_df, the_err,
                   gen, n_generate, n_execute, n_completion, n_history>>
    /\ UNCHANGED <<dvars, redis_client, redis_llm_sql, redis_queryres,
                   _domain_analyzer>>

\* one turn of the loop of batch_chat(), up to the first call it makes
BatchQuestion ==
    /\ pc = "batch_loop"
    /\ \E q \in BatchQuestions :
         LET stripped == QuestionFacts[q].stripped
             sensitive == QuestionFacts[q].sensitive
             answered == stripped = <<>> \/ sensitive
         IN  /\ the_question' = stripped
             /\ pc' = IF answered THEN Answered ELSE "generate"
             /\ batch_left' = IF answered THEN LeftAfterAnswer ELSE batch_left
             /\ response' = IF stripped = <<>>
                            THEN Response(200, "text", "Empty question.")
                            ELSE IF sensitive THEN Refusal
                            ELSE Nothing
    /\ n_generate' = 0
    /\ n_execute' = 0
    /\ n_completion' = 0
    /\ n_history' = 0
    /\ the_err' = None
    /\ UNCHANGED <<endpoint, the_error_context, the_sql, the_df, gen>>
    /\ UNCHANGED <<dvars, caches>>

\* The call of generate_sql_token_optimized by chat(), by the retry of
\* _handle_sql_query or by batch_chat(), and what the caller does with the
\* SQL returned.
GenerateSql ==
    /\ pc = "generate"
    /\ \E cache_ok \in Reachability, introspect_ok \in BOOLEAN,
          loaded \in DeployedBusinessTerms,
          completion \in CompletionOutputs \cup {None} :
       \E r \in {generate_sql_token_optimized(
                      the_question, redis_schema, DB_METADATA_CACHE,
                      redis_llm_sql, _domain_analyzer, loaded,
                      cache_ok, introspect_ok, completion)} :
         LET retry == the_error_context # None
             answered == r.raised \/ (~Truthy(r.sql)
                                        /\ (retry \/ endpoint = "batch_chat"))
         IN  /\ redis_schema' = r.external
             /\ DB_METADATA_CACHE' = r.in_process
             /\ redis_llm_sql' = r.llm_cache
             /\ _domain_analyzer' = r.analyzer
             /\ the_sql' = IF answered THEN None ELSE r.sql
             /\ n_completion' =
                    IF r.did.stage \in {"completed", "completion_raised"}
                    THEN n_completion + 1 ELSE n_completion
             /\ pc' = IF r.raised THEN "done"
                      ELSE IF Truthy(r.sql) THEN "execute"
                      ELSE IF endpoint = "batch_chat" THEN Answered
                      ELSE IF retry THEN "done"
                      ELSE "nonsql"
             /\ batch_left' = IF r.raised THEN 0
                              ELSE IF answered THEN LeftAfterAnswer
                              ELSE batch_left
             /\ response' =
                    IF r.raised
                    THEN (IF endpoint = "chat" THEN ErrorOccurred ELSE BatchError)
                    ELSE IF Truthy(r.sql) THEN Nothing
                    ELSE IF endpoint = "batch_chat"
                    THEN Response(200, "text", "Could not generate SQL for this question.")
                    ELSE IF retry
                    THEN Response(200, "text", "There was an error executing the query.")
                    ELSE Nothing
             /\ n_history' = IF endpoint = "chat" /\ answered
                             THEN n_history + 1 ELSE n_history
    /\ n_generate' = n_generate + 1
    /\ UNCHANGED <<endpoint, the_question, the_error_context, the_df, the_err,
                   gen, n_execute>>
    /\ UNCHANGED <<dvars, redis_client, redis_queryres>>

\* The call of execute_query by _handle_sql_query or by batch_chat(), and
\* what the caller does with the result: the retry, the error response, or
\* the formatting of the DataFrame.
ExecuteQuery ==
    /\ pc = "execute"
    /\ \E cache_ok \in Reachability, outcome \in DatabaseOutcomes(the_sql) :
       \E r \in {execute_query(the_sql, redis_queryres, cache_ok, outcome)} :
         LET failed == r.err # None
             retry == /\ endpoint = "chat"
                      /\ failed
                      /\ the_error_context = None
                      /\ IsSchemaMismatchOf[r.err]
             formatted == ProcessQueryResultOf[the_question][r.df]
         IN  /\ redis_queryres' = r.result_cache
             /\ the_err' = r.err
             /\ the_error_context' = IF retry THEN r.err
                                     ELSE the_error_context
             /\ the_sql' = IF retry THEN the_sql ELSE None
             /\ pc' = IF retry THEN "generate"
                      ELSE IF ~failed /\ formatted = Nothing THEN "done"
                      ELSE Answered
             /\ batch_left' = IF retry THEN batch_left
                              ELSE IF ~failed /\ formatted = Nothing THEN 0
                              ELSE LeftAfterAnswer
             /\ response' =
                    IF retry THEN Nothing
                    ELSE IF ~failed THEN ResponseAfterFormatting(formatted)
                    ELSE IF endpoint = "chat"
                    THEN Response(200, "text", "There was an error executing the query.")
                    ELSE Response(200, "text", "Error: str(err)")
             /\ n_history' =
                    IF retry THEN n_history
                    ELSE IF endpoint = "chat" THEN n_history + 1
                    ELSE IF ~failed /\ formatted # Nothing THEN n_history + 1
                    ELSE n_history
    /\ n_execute' = n_execute + 1
    /\ UNCHANGED <<endpoint, the_question, the_df, gen, n_generate,
                   n_completion>>
    /\ UNCHANGED <<dvars, redis_client, redis_schema, redis_llm_sql,
                   DB_METADATA_CACHE, _domain_analyzer>>

\* _handle_non_sql_query
HandleNonSqlQuery ==
    /\ pc = "nonsql"
    /\ \E cache_ok \in Reachability, introspect_ok \in BOOLEAN :
       \E s \in {get_database_schema(redis_schema, DB_METADATA_CACHE,
                                      cache_ok, introspect_ok)} :
         LET q_lower == Lower(the_question)
             full_documentation ==
                 ContainsAny(q_lower, {<<"d","e","t","a","i","l","e","d"," ","d","o","c","u","m","e","n","t","a","t","i","o","n">>,
                                       <<"f","u","l","l"," ","d","o","c","u","m","e","n","t","a","t","i","o","n">>})
             documentation == ~full_documentation
                                  /\ IsDocKeywordQuestion(the_question)
             raised == /\ documentation
                       /\ s.schema # Nothing
                       /\ handle_documentation_query_raises(the_question,
                                                            s.schema)
         IN  /\ redis_schema' = s.external
             /\ DB_METADATA_CACHE' = s.in_process
             /\ response' =
                    IF raised THEN ErrorOccurred
                    ELSE IF s.schema = Nothing
                    THEN Response(200, "text", "I couldn't retrieve the database schema")
                    ELSE IF documentation
                    THEN Response(200, "text", "handle_documentation_query")
                    ELSE Response(200, "text", "completion")
             /\ n_completion' = IF ~documentation /\ s.schema # Nothing
                                THEN n_completion + 1 ELSE n_completion
    /\ pc' = "done"
    /\ n_history' = n_history + 1
    /\ the_sql' = None
    /\ UNCHANGED <<endpoint, batch_left, the_question, the_error_context,
                   the_df, the_err, gen, n_generate, n_execute>>
    /\ UNCHANGED <<dvars, redis_client, redis_llm_sql, redis_queryres,
                   _domain_analyzer>>

\* _handle_relationship_diagram recording no history entry when no diagram
\* was drawn
RelationshipDiagram_no_history_without_diagram ==
    /\ pc = "relationship_diagram"
    /\ \E cache_ok \in Reachability, introspect_ok \in BOOLEAN,
          drawn \in BOOLEAN :
       \E s \in {get_database_schema(redis_schema, DB_METADATA_CACHE,
                                      cache_ok, introspect_ok)} :
             /\ redis_schema' = s.external
             /\ DB_METADATA_CACHE' = s.in_process
             /\ response' =
                    IF s.schema # Nothing /\ drawn
                    THEN Response(200, "diagram", "relationship_diagram")
                    ELSE Response(200, "text", "I couldn't generate a relationship diagram.")
             /\ n_history' = IF s.schema # Nothing /\ drawn
                             THEN n_history + 1 ELSE n_history
    /\ pc' = "done"
    /\ UNCHANGED <<endpoint, batch_left, the_question, the_error_context,
                   the_sql, the_df, the_err, gen, n_generate, n_execute,
                   n_completion>>
    /\ UNCHANGED <<dvars, redis_client, redis_llm_sql, redis_queryres,
                   _domain_analyzer>>

\* _handle_relationship_diagram; drawn: the schema has relationships and
\* plotting them did not raise.
RelationshipDiagram ==
    /\ pc = "relationship_diagram"
    /\ \E cache_ok \in Reachability, introspect_ok \in BOOLEAN,
          drawn \in BOOLEAN :
       \E s \in {get_database_schema(redis_schema, DB_METADATA_CACHE,
                                      cache_ok, introspect_ok)} :
             /\ redis_schema' = s.external
             /\ DB_METADATA_CACHE' = s.in_process
             /\ response' =
                    IF s.schema # Nothing /\ drawn
                    THEN Response(200, "diagram", "relationship_diagram")
                    ELSE Response(200, "text", "I couldn't generate a relationship diagram.")
    /\ pc' = "done"
    /\ n_history' = n_history + 1
    /\ UNCHANGED <<endpoint, batch_left, the_question, the_error_context,
                   the_sql, the_df, the_err, gen, n_generate, n_execute,
                   n_completion>>
    /\ UNCHANGED <<dvars, redis_client, redis_llm_sql, redis_queryres,
                   _domain_analyzer>>

\* _handle_table_schema_diagram; generate_table_schema_diagram reads the
\* schema again and returns None when drawing the table raises.
TableSchemaDiagram ==
    /\ pc = "table_schema_diagram"
    /\ \E cache_ok \in Reachability, introspect_ok \in BOOLEAN,
          drawn \in BOOLEAN :
         LET first == get_database_schema(redis_schema, DB_METADATA_CACHE,
                                          cache_ok, introspect_ok)
             named == IF first.schema = Nothing THEN {}
                      ELSE {t \in first.schema.tables :
                               Contains(Lower(the_question), Lower(t))}
             s == IF named = {} THEN first
                  ELSE get_database_schema(first.external, first.in_process,
                                           cache_ok, introspect_ok)
         IN  /\ redis_schema' = s.external
             /\ DB_METADATA_CACHE' = s.in_process
             /\ response' =
                    IF /\ s.schema # Nothing
                       /\ drawn
                       /\ \E t \in named : t \notin s.schema.malformed
                    THEN Response(200, "diagram", "schema_diagram")
                    ELSE IF first.schema # Nothing
                    THEN Response(200, "text", "Please specify which table")
                    ELSE Response(200, "text", "I couldn't retrieve the database schema")
    /\ pc' = "done"
    /\ n_history' = n_history + 1
    /\ UNCHANGED <<endpoint, batch_left, the_question, the_error_context,
                   the_sql, the_df, the_err, gen, n_generate, n_execute,
                   n_completion>>
    /\ UNCHANGED <<dvars, redis_client, redis_llm_sql, redis_queryres,
                   _domain_analyzer>>

\* The response is sent.
Return ==
    /\ pc = "done"
    /\ pc' = "idle"
    /\ endpoint' = "none"
    /\ batch_left' = 0
    /\ the_question' = None
    /\ the_error_context' = None
    /\ the_sql' = None
    /\ the_err' = None
    /\ response' = Nothing
    /\ n_generate' = 0
    /\ n_execute' = 0
    /\ n_completion' = 0
    /\ n_history' = 0
    /\ UNCHANGED <<the_df, gen>>
    /\ UNCHANGED <<dvars, caches>>

\* An in-process schema entry after TickMinutes more minutes.
Aged(in_process) ==
    IF in_process = Nothing THEN Nothing
    ELSE [in_process EXCEPT !.age =
              IF @ + TickMinutes > CACHE_EXPIRY_MINUTES
              THEN CACHE_EXPIRY_MINUTES ELSE @ + TickMinutes]

\* The external schema entry after the same minutes: the entry this process
\* wrote was set, with ex = CACHE_EXPIRY_MINUTES * 60, by the introspection
\* that wrote the in-process entry, so it is gone when that one has expired.
ExternalAfter(external, in_process_after) ==
    IF external = LiveSchema /\ in_process_after # Nothing
       /\ in_process_after.age >= CACHE_EXPIRY_MINUTES
    THEN Nothing ELSE external

\* Time passes: the schema entries age.
Tick ==
    /\ pc = "idle"
    /\ DB_METADATA_CACHE # Nothing
    /\ DB_METADATA_CACHE.age < CACHE_EXPIRY_MINUTES
    /\ DB_METADATA_CACHE' = Aged(DB_METADATA_CACHE)
    /\ redis_schema' = ExternalAfter(redis_schema, Aged(DB_METADATA_CACHE))
    /\ UNCHANGED <<dvars, turn, redis_client, redis_llm_sql,
                   redis_queryres, _domain_analyzer>>

\* The cache service drops an entry whose time to live has run out; the
\* model lets time pass between requests.
ExpireSchema ==
    /\ pc = "idle"
    /\ redis_schema # Nothing
    /\ redis_schema' = Nothing
    /\ UNCHANGED <<dvars, turn, redis_client, redis_llm_sql, redis_queryres,
                   DB_METADATA_CACHE, _domain_analyzer>>

ExpireLlmSql ==
    /\ pc = "idle"
    /\ \E key \in DOMAIN redis_llm_sql :
         redis_llm_sql' = CacheDel(redis_llm_sql, key)
    /\ UNCHANGED <<dvars, turn, redis_client, redis_schema, redis_queryres,
                   DB_METADATA_CACHE, _domain_analyzer>>

ExpireQueryRes ==
    /\ pc = "idle"
    /\ \E key \in DOMAIN redis_queryres :
         redis_queryres' = CacheDel(redis_queryres, key)
    /\ UNCHANGED <<dvars, turn, redis_client, redis_schema, redis_llm_sql,
                   DB_METADATA_CACHE, _domain_analyzer>>

Next ==
    \/ ChatRequest
    \/ BatchRequest
    \/ BatchQuestion
    \/ GenerateSql
    \/ ExecuteQuery
    \/ HandleNonSqlQuery
    \/ RelationshipDiagram
    \/ TableSchemaDiagram
    \/ Return
    \/ Tick
    \/ ExpireSchema
    \/ ExpireLlmSql
    \/ ExpireQueryRes

Spec ==
    Init /\ [][Next]_vars



---------------------------------------------------------------------------
(* generate_sql_token_optimized called again and again for one question,    *)
(* as a client of the pipeline calls it; gen records what the last call     *)
(* did.                                                                     *)

InitGenerate ==
    /\ dq = <<>>
    /\ dres = "none"
    /\ redis_client \in {"None", "client"}
    /\ redis_schema \in (IF redis_client = "None" THEN {Nothing}
                         ELSE {Nothing, ForeignSchema})
    /\ redis_llm_sql = <<>>
    /\ redis_queryres = <<>>
    /\ DB_METADATA_CACHE = Nothing
    /\ _domain_analyzer = Nothing
    /\ pc = "idle"
    /\ endpoint = "none"
    /\ batch_left = 0
    /\ the_question \in GenerateQuestions
    /\ the_error_context = None
    /\ the_sql = None
    /\ the_df = Nothing
    /\ the_err = None
    /\ gen = Nothing
    /\ response = Nothing
    /\ n_generate = 0
    /\ n_execute = 0
    /\ n_completion = 0
    /\ n_history = 0

\* One call of generate_sql_token_optimized(the_question); n_completion
\* counts the calls it made to the completion service.
GenerateSqlCall ==
    /\ pc = "idle"
    /\ the_question # None
    /\ \E cache_ok \in Reachability, introspect_ok \in BOOLEAN,
          loaded \in BusinessTermSources,
          completion \in CompletionOutputs \cup {None} :
       \E r \in {generate_sql_token_optimized(
                      the_question, redis_schema, DB_METADATA_CACHE,
                      redis_llm_sql, _domain_analyzer, loaded,
                      cache_ok, introspect_ok, completion)} :
             /\ redis_schema' = r.external
             /\ DB_METADATA_CACHE' = r.in_process
             /\ redis_llm_sql' = r.llm_cache
             /\ _domain_analyzer' = r.analyzer
             /\ the_sql' = r.sql
             /\ gen' = r.did
             /\ n_completion' =
                    IF r.did.stage \in {"completed", "completion_raised"}
                    THEN 1 ELSE 0
    /\ UNCHANGED <<pc, endpoint, batch_left, the_question, the_error_context,
                   the_df, the_err, response, n_generate, n_execute,
                   n_history>>
    /\ UNCHANGED <<dvars, redis_client, redis_queryres>>

NextGenerate ==
    \/ GenerateSqlCall
    \/ Tick
    \/ ExpireSchema
    \/ ExpireLlmSql

SpecGenerate ==
    InitGenerate /\ [][NextGenerate]_vars

\* The requests with the steps a handler takes by itself always taken in the
\* end.  GenerateSql and ExecuteQuery complete when the completion service
\* and the database answer: the code passes no timeout to either call, so
\* nothing obliges these two steps to happen.
SpecLive ==
    /\ Init
    /\ [][Next]_vars
    /\ WF_vars(BatchQuestion)
    /\ WF_vars(HandleNonSqlQuery)
    /\ WF_vars(RelationshipDiagram)
    /\ WF_vars(TableSchemaDiagram)
    /\ WF_vars(Return)

---------------------------------------------------------------------------
(* _process_query_result called by _handle_sql_query or by batch_chat()     *)
(* with the DataFrame of a query that executed.                             *)

InitFormat ==
    /\ dq = <<>>
    /\ dres = "none"
    /\ ProcessJustStarted
    /\ pc = "format"
    /\ endpoint \in {"chat", "batch_chat"}
    /\ batch_left = (IF endpoint = "batch_chat" THEN 1 ELSE 0)
    /\ the_question \in FormatQuestions
    /\ the_error_context = None
    /\ the_sql = <<"S","E","L","E","C","T"," ","1">>
    /\ the_df \in FormatDataFrames
    /\ the_err = None
    /\ gen = Nothing
    /\ response = Nothing
    /\ n_generate = 1
    /\ n_execute = 1
    /\ n_completion = 1
    /\ n_history = 0

\* _process_query_result(question, df, ...) and the response of the turn
ProcessQueryResult ==
    /\ pc = "format"
    /\ LET formatted == ProcessQueryResultOf[the_question][the_df]
       IN  /\ response' = ResponseAfterFormatting(formatted)
           /\ n_history' =
                  IF formatted # Nothing \/ endpoint = "chat"
                  THEN n_history + 1 ELSE n_history
    /\ pc' = "done"
    /\ batch_left' = 0
    /\ UNCHANGED <<endpoint, the_question, the_error_context, the_sql, the_df,
                   the_err, gen, n_generate, n_execute, n_completion>>
    /\ UNCHANGED <<dvars, caches>>

NextFormat ==
    ProcessQueryResult

SpecFormat ==
    InitFormat /\ [][NextFormat]_vars


---------------------------------------------------------------------------
(* get_database_schema() called again and again for one database while     *)
(* time passes; gen records the last call and the minutes since the call   *)
(* that returned a snapshot and opened the current 60-minute window (-1:    *)
(* no call has returned a snapshot yet).                                    *)

InitSchema ==
    /\ dq = <<>>
    /\ dres = "none"
    /\ redis_client \in {"None", "client"}
    /\ redis_schema \in (IF redis_client = "None" THEN {Nothing}
                         ELSE {Nothing, ForeignSchema})
    /\ redis_llm_sql = <<>>
    /\ redis_queryres = <<>>
    /\ DB_METADATA_CACHE = Nothing
    /\ _domain_analyzer = Nothing
    /\ TurnAtRest

\* A window is open while fewer than CACHE_EXPIRY_MINUTES have passed since
\* the call that opened it.
WindowOpen ==
    /\ gen # Nothing
    /\ gen.elapsed \in 0..(CACHE_EXPIRY_MINUTES - 1)

SchemaCallOf(r, cache_ok) ==
    [ stage |-> "schema",
      cache_ok |-> cache_ok,
      external |-> redis_schema,
      in_process |-> DB_METADATA_CACHE,
      introspected |-> r.introspected,
      schema |-> r.schema,
      since |-> IF gen = Nothing THEN -1 ELSE gen.elapsed,
      elapsed |-> IF r.schema # Nothing /\ ~WindowOpen THEN 0
                  ELSE IF gen = Nothing THEN -1 ELSE gen.elapsed ]

GetDatabaseSchemaCall ==
    /\ pc = "idle"
    /\ \E cache_ok \in Reachability, introspect_ok \in BOOLEAN :
       \E r \in {get_database_schema(redis_schema, DB_METADATA_CACHE,
                                     cache_ok, introspect_ok)} :
             /\ redis_schema' = r.external
             /\ DB_METADATA_CACHE' = r.in_process
             /\ gen' = SchemaCallOf(r, cache_ok)
    /\ UNCHANGED <<pc, endpoint, batch_left, the_question, the_error_context,
                   the_sql, the_df, the_err, response, n_generate, n_execute,
                   n_completion, n_history>>
    /\ UNCHANGED <<dvars, redis_client, redis_llm_sql, redis_queryres,
                   _domain_analyzer>>

\* Time passes between two calls.
SchemaTick ==
    /\ pc = "idle"
    /\ gen # Nothing
    /\ \/ DB_METADATA_CACHE # Nothing
          /\ DB_METADATA_CACHE.age < CACHE_EXPIRY_MINUTES
       \/ WindowOpen
    /\ DB_METADATA_CACHE' = Aged(DB_METADATA_CACHE)
    /\ redis_schema' = ExternalAfter(redis_schema, Aged(DB_METADATA_CACHE))
    /\ gen' = [gen EXCEPT !.elapsed =
                  IF @ < 0 THEN @
                  ELSE IF @ + TickMinutes > CACHE_EXPIRY_MINUTES
                  THEN CACHE_EXPIRY_MINUTES ELSE @ + TickMinutes]
    /\ UNCHANGED <<pc, endpoint, batch_left, the_question, the_error_context,
                   the_sql, the_df, the_err, response, n_generate, n_execute,
                   n_completion, n_history>>
    /\ UNCHANGED <<dvars, redis_client, redis_llm_sql, redis_queryres,
                   _domain_analyzer>>

NextSchema ==
    \/ GetDatabaseSchemaCall
    \/ SchemaTick
    \/ ExpireSchema

SpecSchema ==
    InitSchema /\ [][NextSchema]_vars

---------------------------------------------------------------------------
(* get_domain_analyzer() and the methods of the analyzer it returns, called *)
(* again and again in one process; gen records the file that holds the      *)
(* business terms, whether the constructor raised, the last                 *)
(* find_relevant_tables call (again: its question had been asked before)    *)
(* and the first result for every question.                                 *)

\* What business_terms.json can be when the analyzer is constructed.
BusinessTermFiles ==
    {"missing", "invalid_json", "json_array", "deployed"}

\* _load_business_terms: what json.load returned (a mapping or not, and the
\* terms of a mapping); the empty mapping when opening or parsing raised.
_load_business_terms(file) ==
    CASE file = "deployed" -> [mapping |-> TRUE, terms |-> SampleBusinessTerms]
      [] file = "json_array" -> [mapping |-> FALSE, terms |-> {}]
      [] OTHER -> [mapping |-> TRUE, terms |-> {}]

\* _build_indexes calls self.business_terms.items()
_build_indexes_raises(business_terms) ==
    ~business_terms.mapping

\* The questions asked of the analyzer.
AnalyzerQuestions ==
    { <<>>, <<"s","h","o","w"," ","c","u","s","t","o","m","e","r","s">>, <<"e","m","p","l","o","y","e","e"," ","m","e","t","r","i","c">>,
      <<"h","r"," ","c","u","s","t","o","m","e","r","s">> }

\* A defaultdict after the keys have been read by subscript: a missing key
\* is added with an empty set.
Subscripted(index, keys) ==
    [k \in DOMAIN index \cup keys |->
        IF k \in DOMAIN index THEN index[k] ELSE {}]

\* The keys read by subscript if pass 2 read keyword_index by the word of
\* the question instead of the term it is similar to.
find_relevant_tables_subscripts_by_word(analyzer, question, threshold) ==
    LET question_lower == Lower(question)
        only(index, k) == [x \in {k} |-> index[k]]
    IN  [ keyword_index |->
              {word \in QuestionWords(question_lower) :
                  \E k \in DOMAIN analyzer.keyword_index :
                      FuzzRatioAtLeast(word, k, threshold)},
          domain_tables |->
              {d \in DOMAIN analyzer.domain_tables :
                  DomainPassTables(
                      [analyzer EXCEPT !.domain_tables = only(@, d)],
                      question_lower) # {}} ]

\* The keys find_relevant_tables reads by subscript: in keyword_index the
\* terms of pass 2 that are similar to a word, in domain_tables the domains
\* of pass 3 (every set of the two indexes is non-empty).
find_relevant_tables_subscripts(analyzer, question, threshold) ==
    LET question_lower == Lower(question)
        only(index, k) == [x \in {k} |-> index[k]]
    IN  [ keyword_index |->
              {k \in DOMAIN analyzer.keyword_index :
                  FuzzyPassTables(
                      [analyzer EXCEPT !.keyword_index = only(@, k)],
                      question_lower, threshold) # {}},
          domain_tables |->
              {d \in DOMAIN analyzer.domain_tables :
                  DomainPassTables(
                      [analyzer EXCEPT !.domain_tables = only(@, d)],
                      question_lower) # {}} ]

\* One call of find_relevant_tables: the set returned and the analyzer
\* afterwards.
find_relevant_tables_call(analyzer, question, threshold) ==
    LET read == find_relevant_tables_subscripts(analyzer, question, threshold)
    IN  [ tables |-> find_relevant_tables(analyzer, question, threshold),
          analyzer |->
              [analyzer EXCEPT
                  !.keyword_index = Subscripted(@, read.keyword_index),
                  !.domain_tables = Subscripted(@, read.domain_tables)] ]

InitAnalyzer ==
    /\ dq = <<>>
    /\ dres = "none"
    /\ ProcessJustStarted
    /\ pc = "idle"
    /\ endpoint = "none"
    /\ batch_left = 0
    /\ the_question = None
    /\ the_error_context = None
    /\ the_sql = None
    /\ the_df = Nothing
    /\ the_err = None
    /\ gen \in {[stage |-> "analyzer", file |-> f, raised |-> FALSE,
                 question |-> None, tables |-> {}, again |-> FALSE,
                 first |-> <<>>] :
                    f \in BusinessTermFiles}
    /\ response = Nothing
    /\ n_generate = 0
    /\ n_execute = 0
    /\ n_completion = 0
    /\ n_history = 0

\* get_domain_analyzer() while no instance exists
GetDomainAnalyzer ==
    /\ _domain_analyzer = Nothing
    /\ ~gen.raised
    /\ \E loaded \in {_load_business_terms(gen.file)} :
          IF _build_indexes_raises(loaded)
          THEN /\ gen' = [gen EXCEPT !.raised = TRUE]
               /\ UNCHANGED _domain_analyzer
          ELSE /\ _domain_analyzer' = DomainAnalyzer(loaded.terms)
               /\ UNCHANGED gen
    /\ UNCHANGED <<pc, endpoint, batch_left, the_question, the_error_context,
                   the_sql, the_df, the_err, response, n_generate, n_execute,
                   n_completion, n_history>>
    /\ UNCHANGED <<dvars, redis_client, redis_schema, redis_llm_sql,
                   redis_queryres, DB_METADATA_CACHE>>

\* get_domain_analyzer().find_relevant_tables(question)
FindRelevantTablesCall ==
    /\ _domain_analyzer # Nothing
    /\ \E question \in AnalyzerQuestions :
       \E r \in {find_relevant_tables_call(_domain_analyzer, question,
                                           default_threshold)} :
          /\ _domain_analyzer' = r.analyzer
          /\ gen' = [gen EXCEPT
                        !.question = question,
                        !.tables = r.tables,
                        !.again = question \in DOMAIN gen.first,
                        !.first = IF question \in DOMAIN @ THEN @
                                  ELSE CacheSet(@, question, r.tables)]
    /\ UNCHANGED <<pc, endpoint, batch_left, the_question, the_error_context,
                   the_sql, the_df, the_err, response, n_generate, n_execute,
                   n_completion, n_history>>
    /\ UNCHANGED <<dvars, redis_client, redis_schema, redis_llm_sql,
                   redis_queryres, DB_METADATA_CACHE>>

\* get_domain_analyzer().detect_domain_from_question(question)
DetectDomainCall ==
    /\ _domain_analyzer # Nothing
    /\ \E question \in AnalyzerQuestions :
          /\ dq' = question
          /\ dres' = detect_domain_from_question(question)
    /\ UNCHANGED <<caches, turn>>

NextAnalyzer ==
    \/ GetDomainAnalyzer
    \/ FindRelevantTablesCall
    \/ DetectDomainCall

SpecAnalyzer ==
    InitAnalyzer /\ [][NextAnalyzer]_vars

---------------------------------------------------------------------------
(* Two requests served by two threads of one process, each running the      *)
(* get_database_schema() call and then the get_domain_analyzer() call of    *)
(* generate_sql_token_optimized, one statement at a time.  gen holds, for   *)
(* every thread, its position, the schema_info it is building, the snapshot *)
(* and the analyzer it was returned, and counts the analyzers constructed.  *)

Threads ==
    {1, 2}

\* in_process_during_introspection publishing the schema_info under
\* construction
in_process_published_during_introspection(in_process, schema_info) ==
    [schema |-> schema_info, age |-> 0]

\* The in-process entry while a thread fills its local schema_info (lines
\* 138-176): the code does not touch DB_METADATA_CACHE there.
in_process_during_introspection(in_process, schema_info) ==
    in_process

InitThreads ==
    /\ dq = <<>>
    /\ dres = "none"
    /\ redis_client \in {"None", "client"}
    /\ redis_schema \in (IF redis_client = "None" THEN {Nothing}
                         ELSE {Nothing, ForeignSchema})
    /\ redis_llm_sql = <<>>
    /\ redis_queryres = <<>>
    /\ DB_METADATA_CACHE \in
           {Nothing} \cup {[schema |-> LiveSchema, age |-> a] :
                              a \in {0, CACHE_EXPIRY_MINUTES}}
    /\ _domain_analyzer = Nothing
    /\ pc = "idle"
    /\ endpoint = "none"
    /\ batch_left = 0
    /\ the_question = None
    /\ the_error_context = None
    /\ the_sql = None
    /\ the_df = Nothing
    /\ the_err = None
    /\ gen = [stage |-> "threads", constructed |-> 0,
              calls |-> [t \in Threads |->
                            [pc |-> "redis_get", schema_info |-> Nothing,
                             schema |-> Nothing, analyzer |-> Nothing]]]
    /\ response = Nothing
    /\ n_generate = 0
    /\ n_execute = 0
    /\ n_completion = 0
    /\ n_history = 0

\* One statement of get_database_schema in thread t.
SchemaCall(t) ==
    LET call == gen.calls[t]
    IN  /\ \/ /\ call.pc = "redis_get"
              /\ \E cache_ok \in Reachability :
                    gen' = IF cache_ok /\ redis_schema # Nothing
                           THEN [gen EXCEPT !.calls[t].schema = redis_schema,
                                            !.calls[t].pc = "analyzer_test"]
                           ELSE [gen EXCEPT !.calls[t].pc = "memory"]
              /\ UNCHANGED <<redis_schema, DB_METADATA_CACHE>>
           \/ /\ call.pc = "memory"
              /\ gen' = IF /\ DB_METADATA_CACHE # Nothing
                           /\ DB_METADATA_CACHE.age < CACHE_EXPIRY_MINUTES
                        THEN [gen EXCEPT
                                 !.calls[t].schema = DB_METADATA_CACHE.schema,
                                 !.calls[t].pc = "analyzer_test"]
                        ELSE [gen EXCEPT
                                 !.calls[t].schema_info =
                                     [tables |-> {}, malformed |-> {}],
                                 !.calls[t].pc = "introspect"]
              /\ UNCHANGED <<redis_schema, DB_METADATA_CACHE>>
           \/ /\ call.pc = "introspect"
              /\ \/ /\ gen' = [gen EXCEPT !.calls[t].schema = Nothing,
                                          !.calls[t].pc = "returned"]
                    /\ UNCHANGED DB_METADATA_CACHE
                 \/ /\ call.schema_info.tables = LiveSchema.tables
                    /\ gen' = [gen EXCEPT !.calls[t].pc = "redis_set"]
                    /\ UNCHANGED DB_METADATA_CACHE
                 \/ \E table \in LiveSchema.tables \ call.schema_info.tables :
                       /\ gen' = [gen EXCEPT
                                     !.calls[t].schema_info.tables =
                                         @ \cup {table}]
                       /\ DB_METADATA_CACHE' =
                              in_process_during_introspection(
                                  DB_METADATA_CACHE,
                                  gen'.calls[t].schema_info)
              /\ UNCHANGED redis_schema
           \/ /\ call.pc = "redis_set"
              /\ \E cache_ok \in Reachability :
                    redis_schema' = IF cache_ok THEN call.schema_info
                                    ELSE redis_schema
              /\ gen' = [gen EXCEPT !.calls[t].pc = "memory_set"]
              /\ UNCHANGED DB_METADATA_CACHE
           \/ /\ call.pc = "memory_set"
              /\ DB_METADATA_CACHE' = [schema |-> call.schema_info, age |-> 0]
              /\ gen' = [gen EXCEPT !.calls[t].schema = call.schema_info,
                                    !.calls[t].pc = "analyzer_test"]
              /\ UNCHANGED redis_schema
        /\ UNCHANGED _domain_analyzer
        /\ UNCHANGED <<pc, endpoint, batch_left, the_question,
                       the_error_context, the_sql, the_df, the_err, response,
                       n_generate, n_execute, n_completion, n_history>>
        /\ UNCHANGED <<dvars, redis_client, redis_llm_sql, redis_queryres>>

\* One statement of get_domain_analyzer in thread t: the test of the
\* global, the construction, the assignment, the return of the global.
AnalyzerCall(t) ==
    LET call == gen.calls[t]
    IN  /\ \/ /\ call.pc = "analyzer_test"
              /\ gen' = IF _domain_analyzer = Nothing
                        THEN [gen EXCEPT !.calls[t].pc = "construct"]
                        ELSE [gen EXCEPT !.calls[t].pc = "return"]
              /\ UNCHANGED _domain_analyzer
           \/ /\ call.pc = "construct"
              /\ \E loaded \in DeployedBusinessTerms :
                    gen' = [gen EXCEPT
                               !.constructed = @ + 1,
                               !.calls[t].analyzer =
                                   [business_terms |-> loaded,
                                    constructed_by |-> t],
                               !.calls[t].pc = "assign"]
              /\ UNCHANGED _domain_analyzer
           \/ /\ call.pc = "assign"
              /\ _domain_analyzer' = call.analyzer
              /\ gen' = [gen EXCEPT !.calls[t].pc = "return"]
           \/ /\ call.pc = "return"
              /\ gen' = [gen EXCEPT !.calls[t].analyzer = _domain_analyzer,
                                    !.calls[t].pc = "returned"]
              /\ UNCHANGED _domain_analyzer
        /\ UNCHANGED <<redis_schema, DB_METADATA_CACHE>>
        /\ UNCHANGED <<pc, endpoint, batch_left, the_question,
                       the_error_context, the_sql, the_df, the_err, response,
                       n_generate, n_execute, n_completion, n_history>>
        /\ UNCHANGED <<dvars, redis_client, redis_llm_sql, redis_queryres>>

NextThreads ==
    \/ \E t \in Threads : SchemaCall(t)
    \/ \E t \in Threads : AnalyzerCall(t)

SpecThreads ==
    InitThreads /\ [][NextThreads]_vars

---------------------------------------------------------------------------
(* utils/session_manager.py: the conversation history and the generated-    *)
(* image list of one session.  A session is a record of the keys it holds   *)
(* and of the two lists (empty while the key is not held).  gen holds the   *)
(* session, the entries added since the last clear in the order they were   *)
(* added, the number of add calls made and the last call.                   *)

\* The entries add_to_conversation_history keeps.
history_limit == 10

\* The add_to_conversation_history calls made on the session.
MaxTurns == 12

\* The images generated between two clears.
MaxImages == 2

\* SessionManager.init_session
init_session(s) ==
    [s EXCEPT !.keys = {"conversation_history", "generated_images"}]

\* SessionManager.add_to_conversation_history keeping the first
\* history_limit entries of the list
add_to_conversation_history_keeps_oldest(s, entry) ==
    LET appended == Append(s.conversation_history, entry)
    IN  [s EXCEPT !.keys = @ \cup {"conversation_history"},
                  !.conversation_history =
            IF Len(appended) > history_limit
            THEN SubSeq(appended, 1, history_limit)
            ELSE appended]

\* SessionManager.add_to_conversation_history
add_to_conversation_history(s, entry) ==
    LET appended == Append(s.conversation_history, entry)
    IN  [s EXCEPT !.keys = @ \cup {"conversation_history"},
                  !.conversation_history =
            IF Len(appended) > history_limit
            THEN SubSeq(appended, Len(appended) - history_limit + 1,
                        Len(appended))
            ELSE appended]

\* SessionManager.clear_conversation_history, with the
\* delete_session_images call it ends with
clear_conversation_history(s) ==
    [ keys |-> s.keys \cup {"conversation_history"},
      conversation_history |-> <<>>,
      generated_images |-> <<>> ]

InitSession ==
    /\ dq = <<>>
    /\ dres = "none"
    /\ ProcessJustStarted
    /\ pc = "idle"
    /\ endpoint = "none"
    /\ batch_left = 0
    /\ the_question = None
    /\ the_error_context = None
    /\ the_sql = None
    /\ the_df = Nothing
    /\ the_err = None
    /\ gen = [stage |-> "session",
              session |-> [keys |-> {}, conversation_history |-> <<>>,
                           generated_images |-> <<>>],
              added |-> <<>>, turns |-> 0, last |-> "none"]
    /\ response = Nothing
    /\ n_generate = 0
    /\ n_execute = 0
    /\ n_completion = 0
    /\ n_history = 0

\* init_session(), the first call of every route
InitSessionCall ==
    /\ gen.last # "init_session"
    /\ gen' = [gen EXCEPT !.session = init_session(@),
                          !.last = "init_session"]
    /\ UNCHANGED <<pc, endpoint, batch_left, the_question, the_error_context,
                   the_sql, the_df, the_err, response, n_generate, n_execute,
                   n_completion, n_history>>
    /\ UNCHANGED <<dvars, caches>>

\* add_to_conversation_history(question, response_obj, sql_query); the entry
\* is told from the others by the number of the call
AddToConversationHistory ==
    /\ gen.turns < MaxTurns
    /\ \E entry \in {gen.turns + 1} :
          gen' = [gen EXCEPT
                     !.session = add_to_conversation_history(@, entry),
                     !.added = Append(@, entry),
                     !.turns = entry,
                     !.last = "add_to_conversation_history"]
    /\ UNCHANGED <<pc, endpoint, batch_left, the_question, the_error_context,
                   the_sql, the_df, the_err, response, n_generate, n_execute,
                   n_completion, n_history>>
    /\ UNCHANGED <<dvars, caches>>

\* A handler of chat.py appends the file of an image it saved when the
\* session holds the list.
AppendGeneratedImage ==
    /\ "generated_images" \in gen.session.keys
    /\ Len(gen.session.generated_images) < MaxImages
    /\ gen' = [gen EXCEPT
                  !.session.generated_images = Append(@, Len(@) + 1),
                  !.last = "append"]
    /\ UNCHANGED <<pc, endpoint, batch_left, the_question, the_error_context,
                   the_sql, the_df, the_err, response, n_generate, n_execute,
                   n_completion, n_history>>
    /\ UNCHANGED <<dvars, caches>>

\* clear_conversation_history()
ClearConversationHistory ==
    /\ gen.last # "clear_conversation_history"
    /\ gen' = [gen EXCEPT !.session = clear_conversation_history(@),
                          !.added = <<>>,
                          !.last = "clear_conversation_history"]
    /\ UNCHANGED <<pc, endpoint, batch_left, the_question, the_error_context,
                   the_sql, the_df, the_err, response, n_generate, n_execute,
                   n_completion, n_history>>
    /\ UNCHANGED <<dvars, caches>>

NextSession ==
    \/ InitSessionCall
    \/ AddToConversationHistory
    \/ AppendGeneratedImage
    \/ ClearConversationHistory

SpecSession ==
    InitSession /\ [][NextSession]_vars

---------------------------------------------------------------------------
(* Properties of the pipeline, of the formatting and of the requests. *)

\* C1: every non-null SQL string a generation returns to its caller, new
\* from the completion service or served from the generated-SQL cache,
\* starts with 'select' after trimming and lowercasing, so that /chat and
\* /batch_chat hand no other statement to execute_query.
C1_OnlySelectReachesTheExecutor ==
    the_sql # None => StartsWith(Lower(Strip(the_sql)), <<"s","e","l","e","c","t">>)

\* the test of C2 for a schema-mismatch error, spelled out
C2_IsSchemaMismatch(message) ==
    \/ Contains(message, <<"1","0","5","4">>)
    \/ Contains(Lower(message), <<"n","o"," ","s","u","c","h"," ","c","o","l","u","m","n">>)

\* C2: a /chat turn re-invokes the pipeline once, with the error text as
\* error_context, when its first execution fails with a schema-mismatch
\* error and for no other error; it makes at most two generations and two
\* executions, and the error of the second execution is returned.
C2_SingleRetryOnSchemaMismatch ==
    /\ n_generate <= 2
    /\ n_execute <= 2
    /\ the_error_context # None =>
           /\ endpoint = "chat"
           /\ C2_IsSchemaMismatch(the_error_context)
           /\ n_execute >= 1
           /\ n_generate = (IF pc = "generate" THEN 1 ELSE 2)
    /\ n_generate = 2 => the_error_context # None
    /\ (pc = "generate" /\ n_generate = 1) =>
           /\ the_error_context = the_err
           /\ n_execute = 1
    /\ (endpoint = "chat" /\ pc = "done" /\ the_err # None) =>
           IF n_execute = 1
           THEN n_generate = (IF C2_IsSchemaMismatch(the_err) THEN 2 ELSE 1)
           ELSE n_generate = 2 /\ n_execute = 2

\* a /chat turn whose retry was executed and failed again
C2_Witness ==
    /\ endpoint = "chat"
    /\ pc = "done"
    /\ n_generate = 2
    /\ n_execute = 2
    /\ the_err # None
    /\ response = Response(200, "text", "There was an error executing the query.")

\* C3: a generation that finds, in a reachable cache service, the entry a
\* former generation wrote for its key returns exactly that entry and calls
\* the completion service zero times.
C3_CacheRoundTrip ==
    ( /\ gen # Nothing
      /\ gen.stage \notin {"no_schema", "prompt_raised"}
      /\ gen.cache_ok
      /\ gen.entry # None )
    => /\ the_sql = gen.entry
       /\ n_completion = 0

\* C4: the prompt is never built for an empty relevant-table set, whatever
\* the detected domain.
C4_PromptTablesNonEmpty ==
    (gen # Nothing /\ gen.stage # "no_schema") => gen.tables # {}

\* C7: a /chat turn that formats the result of an executed query ends with a
\* card, chart, table or text response, never with the 500 of the exception
\* handler.
C7_FormattingNeverFatal ==
    (endpoint = "chat" /\ pc = "done" /\ the_df # Nothing) =>
        /\ response.status = 200
        /\ response.type \in {"card", "chart", "table", "text"}

\* C8: when rendering the compact schema raises, the generation goes on to
\* the cache check and the completion call; the error does not leave the
\* pipeline.
C8_RenderingFailureFallsBack ==
    (gen # Nothing /\ gen.rendering_raised) =>
        gen.stage \in {"cache_hit", "completed", "completion_raised"}

\* the completion output, trimmed and without its code fence
C9_Output ==
    IF gen # Nothing /\ gen.stage = "completed"
    THEN StripFence(gen.content) ELSE None

\* C9 as stated: on a cache miss the generation returns the trimmed,
\* fence-stripped output if and only if it starts with 'select' whatever the
\* case, contains none of the placeholder tokens as they are spelled, and is
\* not the --ERROR sentinel.
C9_AsStated ==
    (gen # Nothing /\ gen.stage = "completed") =>
        the_sql =
            (IF /\ StartsWith(Lower(C9_Output), <<"s","e","l","e","c","t">>)
                /\ ~ContainsAny(C9_Output, placeholders)
                /\ ~StartsWith(C9_Output, <<"-","-","E","R","R","O","R">>)
             THEN C9_Output ELSE None)

\* C9: on a cache miss the generation returns the trimmed, fence-stripped
\* output if and only if it starts with 'select' whatever the case, contains
\* none of the placeholder tokens whatever the case, and is not the --ERROR
\* sentinel; otherwise it returns no SQL.
C9_CacheMissValidation ==
    (gen # Nothing /\ gen.stage = "completed") =>
        the_sql =
            (IF /\ StartsWith(Lower(C9_Output), <<"s","e","l","e","c","t">>)
                /\ ~ContainsAny(Lower(C9_Output), placeholders)
                /\ ~StartsWith(C9_Output, <<"-","-","E","R","R","O","R">>)
             THEN C9_Output ELSE None)

\* an output that starts with select and holds a placeholder in another case
C9_Witness ==
    /\ gen # Nothing
    /\ gen.stage = "completed"
    /\ gen.content = <<"s","e","l","e","c","t"," ","*"," ","f","r","o","m"," ","T","a","b","l","e","_","N","a","m","e">>
    /\ the_sql = None

\* the test of C10 for a sensitive question, spelled out
C10_IsSensitive(q) ==
    \E keyword \in {<<"p","a","s","s","w","o","r","d">>, <<"p","a","s","s","w","d">>, <<"s","e","c","r","e","t">>, <<"c","r","e","d","e","n","t","i","a","l">>,
                    <<"t","o","k","e","n">>} :
        Contains(Lower(q), keyword)

\* C10: a question holding a sensitive keyword, whatever the case, is
\* answered with the fixed refusal before any generation: no call to the
\* pipeline, the completion service or the executor is made for it, in
\* /chat and for each question of /batch_chat.
C10_SensitiveQuestionsRefused ==
    (the_question # None /\ C10_IsSensitive(the_question)) =>
        /\ pc \in {"done", "batch_loop"}
        /\ response = Refusal
        /\ n_generate = 0
        /\ n_execute = 0
        /\ n_completion = 0

\* a sensitive question refused in a batch that goes on, after a question of
\* the batch that was executed
C10_Witness ==
    /\ endpoint = "batch_chat"
    /\ pc = "batch_loop"
    /\ the_question = <<"S","h","o","w"," ","m","e"," ","t","h","e"," ","T","O","K","E","N">>
    /\ response = Refusal
    /\ redis_queryres # <<>>

\* C11 as stated: after one call that returned a snapshot, every later call
\* within the 60 minutes returns a snapshot without live introspection, and
\* the first call after the 60 minutes invokes live introspection.
C11_AsStated ==
    (gen # Nothing /\ gen.stage = "schema" /\ gen.since >= 0) =>
        /\ gen.since < CACHE_EXPIRY_MINUTES =>
               (~gen.introspected /\ gen.schema # Nothing)
        /\ gen.since >= CACHE_EXPIRY_MINUTES => gen.introspected

\* C11: get_database_schema consults the external cache first, then the
\* in-process cache with an age check against the 60-minute TTL, then live
\* introspection; within the TTL of a snapshot this process introspected
\* every call returns a snapshot without live introspection, and a call after
\* that TTL has expired invokes live introspection again unless the external
\* cache serves an entry written by another process.
C11_SchemaCacheOrderAndTtl ==
    (gen # Nothing /\ gen.stage = "schema") =>
        LET external_hit == gen.cache_ok /\ gen.external # Nothing
            in_process_fresh ==
                /\ gen.in_process # Nothing
                /\ gen.in_process.age < CACHE_EXPIRY_MINUTES
        IN  /\ external_hit =>
                   (~gen.introspected /\ gen.schema = gen.external)
            /\ (~external_hit /\ in_process_fresh) =>
                   (~gen.introspected /\ gen.schema = gen.in_process.schema)
            /\ in_process_fresh =>
                   (~gen.introspected /\ gen.schema # Nothing)
            /\ ( /\ gen.in_process # Nothing
                 /\ gen.in_process.age >= CACHE_EXPIRY_MINUTES
                 /\ ~(gen.cache_ok /\ gen.external = ForeignSchema) ) =>
                   gen.introspected
            /\ gen.introspected <=> (~external_hit /\ ~in_process_fresh)

\* A call made after the snapshot of an earlier introspection has expired,
\* which introspects again.
C11_Witness ==
    /\ gen # Nothing
    /\ gen.stage = "schema"
    /\ gen.since >= CACHE_EXPIRY_MINUTES
    /\ gen.in_process # Nothing
    /\ gen.in_process.age >= CACHE_EXPIRY_MINUTES
    /\ gen.introspected
    /\ gen.schema = LiveSchema


\* C12: from every reachable state, a get_database_schema call whose live
\* introspection fails returns null and leaves both schema tiers as they
\* were, and a generate_sql_token_optimized call that gets a null schema
\* returns no SQL without raising, without a completion call and without
\* writing any cache entry; the call recorded last obeys the same.
C12_NullSchemaStopsGeneration ==
    /\ (gen # Nothing /\ gen.stage = "no_schema") =>
           (the_sql = None /\ n_completion = 0)
    /\ \A cache_ok \in Reachability :
          LET s == get_database_schema(redis_schema, DB_METADATA_CACHE,
                                       cache_ok, FALSE)
          IN  /\ s.introspected =>
                    /\ s.schema = Nothing
                    /\ s.external = redis_schema
                    /\ s.in_process = DB_METADATA_CACHE
              /\ s.schema = Nothing =>
                    \A loaded \in BusinessTermSources,
                       completion \in CompletionOutputs \cup {None} :
                       LET r == generate_sql_token_optimized(
                                    the_question, redis_schema,
                                    DB_METADATA_CACHE, redis_llm_sql,
                                    _domain_analyzer, loaded, cache_ok,
                                    FALSE, completion)
                       IN  /\ r.sql = None
                           /\ ~r.raised
                           /\ r.did.stage = "no_schema"
                           /\ r.external = redis_schema
                           /\ r.in_process = DB_METADATA_CACHE
                           /\ r.llm_cache = redis_llm_sql

\* A call whose introspection failed after the in-process snapshot had
\* expired, with generated SQL still in the cache: it returned no SQL.
C12_Witness ==
    /\ gen # Nothing
    /\ gen.stage = "no_schema"
    /\ the_sql = None
    /\ n_completion = 0
    /\ DB_METADATA_CACHE # Nothing
    /\ DB_METADATA_CACHE.age >= CACHE_EXPIRY_MINUTES
    /\ redis_llm_sql # <<>>

\* With the cache service unreachable, each of the three functions returns
\* what it returns with a reachable, empty cache service, writes no entry,
\* and the generator and the executor call the completion service and the
\* database.
C13_SameAsEmptyCache ==
    /\ \A introspect_ok \in BOOLEAN :
          LET u == get_database_schema(redis_schema, DB_METADATA_CACHE,
                                       FALSE, introspect_ok)
              e == get_database_schema(Nothing, DB_METADATA_CACHE,
                                       TRUE, introspect_ok)
          IN  /\ u.schema = e.schema
              /\ u.introspected = e.introspected
              /\ u.external = redis_schema
    /\ pc = "generate" =>
          \A introspect_ok \in BOOLEAN, loaded \in DeployedBusinessTerms,
             completion \in CompletionOutputs \cup {None} :
             LET u == generate_sql_token_optimized(
                          the_question, redis_schema, DB_METADATA_CACHE,
                          redis_llm_sql, _domain_analyzer, loaded,
                          FALSE, introspect_ok, completion)
                 e == generate_sql_token_optimized(
                          the_question, Nothing, DB_METADATA_CACHE,
                          <<>>, _domain_analyzer, loaded,
                          TRUE, introspect_ok, completion)
             IN  /\ u.sql = e.sql
                 /\ u.raised = e.raised
                 /\ u.external = redis_schema
                 /\ u.llm_cache = redis_llm_sql
                 /\ u.did.stage # "cache_hit"
    /\ pc = "execute" =>
          \A outcome \in DatabaseOutcomes(the_sql) :
             LET u == execute_query(the_sql, redis_queryres, FALSE, outcome)
                 e == execute_query(the_sql, <<>>, TRUE, outcome)
             IN  /\ u.df = e.df
                 /\ u.err = e.err
                 /\ u.result_cache = redis_queryres
                 /\ IF outcome \in DataFrames THEN u.df = outcome
                    ELSE u.err = outcome

\* C13 as stated: an unavailable cache service gives the results of an empty
\* cache, and every get_database_schema call then runs live introspection.
C13_AsStated ==
    /\ C13_SameAsEmptyCache
    /\ \A introspect_ok \in BOOLEAN :
          get_database_schema(redis_schema, DB_METADATA_CACHE,
                              FALSE, introspect_ok).introspected

\* C13: an unavailable cache service gives the results of an empty cache
\* service and is never fatal; the completion service and the database are
\* then called on every request, and live introspection exactly when the
\* in-process snapshot is absent or at least 60 minutes old.
C13_UnavailableCacheIsAlwaysMiss ==
    /\ C13_SameAsEmptyCache
    /\ \A introspect_ok \in BOOLEAN :
          get_database_schema(redis_schema, DB_METADATA_CACHE,
                              FALSE, introspect_ok).introspected
          <=> ( \/ DB_METADATA_CACHE = Nothing
                \/ DB_METADATA_CACHE.age >= CACHE_EXPIRY_MINUTES )

\* A process without a cache client about to execute a generated statement:
\* the completion service was called, the snapshot is held in process.
C13_Witness ==
    /\ redis_client = "None"
    /\ pc = "execute"
    /\ n_completion >= 1
    /\ DB_METADATA_CACHE # Nothing
    /\ DB_METADATA_CACHE.age < CACHE_EXPIRY_MINUTES
    /\ redis_llm_sql = <<>>
    /\ redis_queryres = <<>>

\* C14: a formatted result of a question classified as card is a card when
\* the rowset is exactly one row by one column or has a numeric column, and
\* a table response otherwise.
C14_CardFallsBackToTable ==
    (pc = "done" /\ the_df # Nothing /\ ResponseTypeOf(the_question) = "card") =>
        LET suits_metric_set ==
                \/ the_df.nrows = 1 /\ the_df.ncols = 1
                \/ the_df.numeric > 0
        IN  /\ response.status = 200
            /\ response.type = (IF suits_metric_set THEN "card" ELSE "table")

\* C15: after any number of find_relevant_tables calls the analyzer holds
\* the indexes its constructor built (no key added, no set changed), and the
\* last call returned what the first call for the same question returned.
C15_FindRelevantTablesIsPure ==
    (gen # Nothing /\ gen.stage = "analyzer" /\ _domain_analyzer # Nothing) =>
        /\ _domain_analyzer = AnalyzerOf[_domain_analyzer.business_terms]
        /\ gen.again => gen.tables = gen.first[gen.question]

\* A question asked again after other questions, answered with tables found
\* by fuzzy matching and by the domain pass.
C15_Witness ==
    /\ gen # Nothing
    /\ gen.stage = "analyzer"
    /\ _domain_analyzer # Nothing
    /\ gen.question = <<"e","m","p","l","o","y","e","e"," ","m","e","t","r","i","c">>
    /\ gen.again
    /\ gen.tables # {}
    /\ DOMAIN gen.first = AnalyzerQuestions

\* The presentation kinds in the order of the claim, each with its trigger
\* phrases.
C16_Triggers ==
    << [kind |-> "pie", phrases |-> {<<"p","i","e"," ","c","h","a","r","t">>, <<"p","i","e"," ","d","i","a","g","r","a","m">>}],
       [kind |-> "bar", phrases |-> {<<"b","a","r"," ","c","h","a","r","t">>, <<"b","a","r"," ","d","i","a","g","r","a","m">>}],
       [kind |-> "line", phrases |-> {<<"l","i","n","e"," ","c","h","a","r","t">>, <<"l","i","n","e"," ","d","i","a","g","r","a","m">>}],
       [kind |-> "scatter", phrases |-> {<<"s","c","a","t","t","e","r"," ","p","l","o","t">>, <<"s","c","a","t","t","e","r"," ","c","h","a","r","t">>,
                                         <<"s","c","a","t","t","e","r"," ","d","i","a","g","r","a","m">>}],
       [kind |-> "card", phrases |-> {<<"c","a","r","d">>, <<"m","e","t","r","i","c">>}] >>

\* The first kind one of whose phrases occurs in the lowercased question,
\* table when none does.
C16_FirstTriggered(question) ==
    LET triggered == {i \in DOMAIN C16_Triggers :
                         \E phrase \in C16_Triggers[i].phrases :
                             Contains(Lower(question), phrase)}
    IN  IF triggered = {} THEN "table"
        ELSE C16_Triggers[CHOOSE i \in triggered :
                              \A j \in triggered : i <= j].kind

\* C16: the presentation kind of a query result is the first of pie, bar,
\* line, scatter, card with a trigger phrase in the lowercased question and
\* table when there is none, whatever the rowset; the inline classification
\* of _process_query_result and determine_response_type_from_keywords agree;
\* a formatted turn answers a card only for the kind card and a chart only
\* of the kind classified.
C16_PresentationKindFromQuestion ==
    (pc \in {"format", "done"} /\ the_question # None) =>
        /\ ResponseTypeOf(the_question) = C16_FirstTriggered(the_question)
        /\ determine_response_type_from_keywords(the_question)
               = ResponseTypeOf(the_question)
        /\ (pc = "done" /\ response.type = "card") =>
               C16_FirstTriggered(the_question) = "card"
        /\ (pc = "done" /\ response.type = "chart") =>
               response.content = C16_FirstTriggered(the_question)

\* A formatted question that names a bar chart before a pie chart, in
\* capitals: its kind is pie.
C16_Witness ==
    /\ pc = "done"
    /\ the_question = <<"B","a","r"," ","C","h","a","r","t"," ","a","n","d"," ","p","i","e"," ","c","h","a","r","t">>
    /\ ResponseTypeOf(the_question) = "pie"
    /\ determine_response_type_from_keywords(the_question) = "pie"

\* C17: a classified question that contains the reporting keyword 'report'
\* and no keyword of the hr or financial sets is classified as reporting,
\* also when it names an inventory subject such as 'sales'.
C17_ReportQuestionsAreReporting ==
    ( /\ dres # "none"
      /\ Contains(Lower(dq), <<"r","e","p","o","r","t">>)
      /\ ~ContainsAny(Lower(dq), hr_keywords)
      /\ ~ContainsAny(Lower(dq), financial_keywords) ) =>
        dres = "reporting"

\* C18: every /chat turn eventually stands answered with a response, also
\* when the completion service or the database never answers.
C18_EveryChatTurnReturns ==
    (endpoint = "chat") ~> (endpoint = "chat" /\ pc = "done" /\ response # Nothing)

\* C19: when business_terms.json is missing or malformed, the constructor
\* of the analyzer does not raise, the analyzer holds an empty business-term
\* map, and detect_domain_from_question and find_relevant_tables return a
\* domain and a set of tables.
C19_MissingOrMalformedTermsAreEmpty ==
    ( /\ gen # Nothing
      /\ gen.stage = "analyzer"
      /\ gen.file \in {"missing", "invalid_json", "json_array"} ) =>
        /\ ~gen.raised
        /\ _domain_analyzer # Nothing =>
              /\ _domain_analyzer.business_terms = {}
              /\ dres # "none" => dres \in Domains
              /\ IsFiniteSet(gen.tables)

\* C20: every entry of the generated-SQL cache starts with 'select' after
\* trimming and lowercasing, holds no placeholder token and is not the
\* --ERROR sentinel.
C20_CachedSqlPassedValidation ==
    \A key \in DOMAIN redis_llm_sql :
        /\ StartsWith(Lower(Strip(redis_llm_sql[key])), <<"s","e","l","e","c","t">>)
        /\ ~ContainsAny(Lower(redis_llm_sql[key]), placeholders)
        /\ ~StartsWith(redis_llm_sql[key], <<"-","-","E","R","R","O","R">>)

\* C21: the key of the generated-SQL cache does not hold error_context.  For
\* every first generation of a /chat turn that returns SQL with the cache
\* service reachable, a second generation for the same question, such as
\* the retry after a schema-mismatch error, with the service reachable, hits
\* the entry, returns the SQL of the first and neither calls the completion
\* service nor writes the cache.
C21_RetryServedFromCache ==
    (endpoint = "chat" /\ pc = "generate" /\ the_error_context = None) =>
        \A introspect_ok \in BOOLEAN, loaded \in DeployedBusinessTerms,
           first_completion \in CompletionOutputs \cup {None} :
           LET first == generate_sql_token_optimized(
                            the_question, redis_schema, DB_METADATA_CACHE,
                            redis_llm_sql, _domain_analyzer, loaded,
                            TRUE, introspect_ok, first_completion)
           IN  (redis_client # "None" /\ Truthy(first.sql)) =>
                   \A retry_introspect_ok \in BOOLEAN,
                      retry_completion \in CompletionOutputs \cup {None} :
                      LET retry == generate_sql_token_optimized(
                                       the_question, first.external,
                                       first.in_process, first.llm_cache,
                                       first.analyzer, loaded, TRUE,
                                       retry_introspect_ok, retry_completion)
                      IN  /\ retry.did.stage = "cache_hit"
                          /\ retry.sql = first.sql
                          /\ retry.llm_cache = first.llm_cache

\* A /chat turn whose retry generation returned SQL without a second call
\* to the completion service.
C21_Witness ==
    /\ endpoint = "chat"
    /\ pc = "execute"
    /\ the_error_context # None
    /\ n_generate = 2
    /\ n_completion = 1
    /\ the_sql # None

\* C22: under every interleaving of two get_database_schema calls the
\* in-process entry is absent or holds a snapshot with every table, every
\* snapshot a call was returned holds every table (no snapshot: null), and
\* so does the entry of the cache service.
C22_NoPartialSnapshotVisible ==
    (gen # Nothing /\ gen.stage = "threads") =>
        /\ DB_METADATA_CACHE # Nothing =>
               DB_METADATA_CACHE.schema.tables = LiveSchema.tables
        /\ redis_schema # Nothing => redis_schema.tables = LiveSchema.tables
        /\ \A t \in Threads :
              gen.calls[t].schema # Nothing =>
                  gen.calls[t].schema.tables = LiveSchema.tables

\* One thread has been returned the snapshot it introspected while the
\* other is still filling its own schema_info.
C22_Witness ==
    /\ gen # Nothing
    /\ gen.stage = "threads"
    /\ \E t, u \in Threads :
          /\ gen.calls[t].pc = "introspect"
          /\ gen.calls[t].schema_info.tables \notin {{}, LiveSchema.tables}
          /\ gen.calls[u].schema_info # Nothing
          /\ gen.calls[u].schema = gen.calls[u].schema_info
          /\ DB_METADATA_CACHE = [schema |-> gen.calls[u].schema, age |-> 0]

\* C23: under every interleaving of two first get_domain_analyzer calls one
\* analyzer is constructed, and the two callers are returned the same
\* instance.
C23_AnalyzerConstructedOnce ==
    (gen # Nothing /\ gen.stage = "threads") =>
        /\ gen.constructed <= 1
        /\ \A t, u \in Threads :
              (gen.calls[t].pc = "returned" /\ gen.calls[u].pc = "returned"
               /\ gen.calls[t].analyzer # Nothing
               /\ gen.calls[u].analyzer # Nothing) =>
                  gen.calls[t].analyzer = gen.calls[u].analyzer

C25_ResultCacheHoldsOnlyRowsets ==
    /\ \A k \in DOMAIN redis_queryres : redis_queryres[k] \in DataFrames
    /\ pc = "execute" =>
         \A cache_ok \in Reachability, outcome \in DatabaseOutcomes(the_sql) :
            LET r == execute_query(the_sql, redis_queryres, cache_ok, outcome)
                hit == cache_ok /\ the_sql \in DOMAIN redis_queryres
            IN  IF hit
                THEN /\ r.df = redis_queryres[the_sql]
                     /\ r.err = None
                     /\ r.result_cache = redis_queryres
                ELSE IF outcome \in DataFrames
                THEN /\ r.df = outcome
                     /\ r.err = None
                     /\ r.result_cache =
                            IF cache_ok
                            THEN CacheSet(redis_queryres, the_sql, outcome)
                            ELSE redis_queryres
                ELSE /\ r.df = Nothing
                     /\ r.err = outcome
                     /\ r.result_cache = redis_queryres

\* A request about to execute a statement that has an entry in the
\* query-result cache: an earlier request executed it and the entry was
\* written.
C25_Witness ==
    /\ pc = "execute"
    /\ redis_client # "None"
    /\ the_sql \in DOMAIN redis_queryres
    /\ redis_queryres[the_sql] \in DataFrames

\* the names a pass matched, each mapped through reverse_table_map when it
\* has an entry there
C26_Original(matched) ==
    {IF table \in DOMAIN _domain_analyzer.reverse_table_map
     THEN _domain_analyzer.reverse_table_map[table]
     ELSE table : table \in matched}

\* C26: what find_relevant_tables returned for the last question holds the
\* mapped tables of each of its three passes and nothing else, and is
\* empty exactly when no keyword occurs in the question, no keyword is
\* similar to one of its words and no domain word occurs in it.
C26_UnionOfThreePasses ==
    (gen # Nothing /\ gen.stage = "analyzer" /\ _domain_analyzer # Nothing
     /\ gen.question # None) =>
        LET question_lower == Lower(gen.question)
            exact == C26_Original(ExactPassTables(_domain_analyzer, question_lower))
            fuzzy == C26_Original(FuzzyPassTables(_domain_analyzer, question_lower, default_threshold))
            domain == C26_Original(DomainPassTables(_domain_analyzer, question_lower))
            fired == \/ \E k \in DOMAIN _domain_analyzer.keyword_index :
                           \/ Contains(question_lower, k)
                           \/ \E word \in QuestionWords(question_lower) :
                                 FuzzRatioAtLeast(word, k, default_threshold)
                     \/ DomainPassTables(_domain_analyzer, question_lower) # {}
        IN  /\ exact \subseteq gen.tables
            /\ fuzzy \subseteq gen.tables
            /\ domain \subseteq gen.tables
            /\ gen.tables \subseteq exact \cup fuzzy \cup domain
            /\ (gen.tables = {}) <=> ~fired

\* The last question was answered with a table that only the exact pass and
\* the fuzzy pass contribute and a table that only the domain pass
\* contributes.
C26_Witness ==
    /\ gen # Nothing
    /\ gen.stage = "analyzer"
    /\ _domain_analyzer # Nothing
    /\ gen.question # None
    /\ LET question_lower == Lower(gen.question)
           exact == ExactPassTables(_domain_analyzer, question_lower)
           fuzzy == FuzzyPassTables(_domain_analyzer, question_lower, default_threshold)
           domain == DomainPassTables(_domain_analyzer, question_lower)
       IN  /\ exact # {}
           /\ domain \ (exact \cup fuzzy) # {}
           /\ gen.tables = C26_Original(exact \cup fuzzy \cup domain)

\* C27: a classified question that holds no hr, inventory, financial,
\* reporting or core-entity keyword holds no inventory-context word and is
\* classified general, whether or not it mentions customer or supplier;
\* every inventory-context word is an inventory keyword.
C27_InventoryBranchUnreachable ==
    /\ inventory_context_keywords \subseteq inventory_keywords
    /\ (dres # "none" /\ MatchingSets(dq) = {}) =>
           /\ ~HasInventoryContext(dq)
           /\ dres = "general"

\* A question that mentions customer or supplier and holds no keyword of
\* the five sets tested before has been classified.
C27_Witness ==
    /\ dres = "general"
    /\ MentionsCustomerOrSupplier(dq)
    /\ MatchingSets(dq) = {}

\* C28: a call that found an expired in-process snapshot and no entry of the
\* cache service introspected, and returned null or a snapshot introspected
\* by that call; and from every reachable state a call whose introspection
\* fails leaves both tiers as they are and returns null when the in-process
\* snapshot has expired and the cache service serves no entry.
C28_FailedRefreshKeepsTiersAndReturnsNull ==
    (gen # Nothing /\ gen.stage = "schema") =>
        /\ ( /\ gen.in_process # Nothing
             /\ gen.in_process.age >= CACHE_EXPIRY_MINUTES
             /\ ~(gen.cache_ok /\ gen.external # Nothing) ) =>
               /\ gen.introspected
               /\ gen.schema \in {Nothing, LiveSchema}
        /\ \A cache_ok \in Reachability :
              LET s == get_database_schema(redis_schema, DB_METADATA_CACHE,
                                           cache_ok, FALSE)
                  expired == /\ DB_METADATA_CACHE # Nothing
                             /\ DB_METADATA_CACHE.age >= CACHE_EXPIRY_MINUTES
              IN  /\ s.external = redis_schema
                  /\ s.in_process = DB_METADATA_CACHE
                  /\ (expired /\ ~(cache_ok /\ redis_schema # Nothing)) =>
                         (s.introspected /\ s.schema = Nothing)

\* A call that found only an expired in-process snapshot returned null, and
\* both tiers are as the call found them.
C28_Witness ==
    /\ gen # Nothing
    /\ gen.stage = "schema"
    /\ gen.in_process # Nothing
    /\ gen.in_process.age >= CACHE_EXPIRY_MINUTES
    /\ gen.external = Nothing
    /\ gen.introspected
    /\ gen.schema = Nothing
    /\ DB_METADATA_CACHE = gen.in_process
    /\ redis_schema = gen.external

\* C29: a /chat turn with a non-empty question has recorded no history
\* entry while one of its handlers is still to run and exactly one when its
\* response is ready, whichever handler answered it.
C29_OneHistoryEntryPerChatTurn ==
    (endpoint = "chat" /\ the_question # <<>>) =>
        /\ pc \in {"generate", "execute", "nonsql", "relationship_diagram",
                   "table_schema_diagram"} => n_history = 0
        /\ pc = "done" => n_history = 1

\* A /chat turn answered by the exception handler after its statement was
\* executed: formatting the result raised.
C29_Witness ==
    /\ endpoint = "chat"
    /\ pc = "done"
    /\ the_question # <<>>
    /\ response = ErrorOccurred
    /\ n_execute >= 1
    /\ the_err = None
    /\ n_history = 1

\* C30: the history holds at most history_limit entries, which are the last
\* entries added since the last clear in the order they were added; and
\* right after a clear the history is empty and the session holds no
\* generated image.
C30_HistoryHoldsLastTenSinceClear ==
    (gen # Nothing /\ gen.stage = "session") =>
        LET held == gen.session.conversation_history
            images == gen.session.generated_images
            n == Len(gen.added)
            kept == IF n > history_limit THEN history_limit ELSE n
        IN  /\ Len(held) <= history_limit
            /\ held = SubSeq(gen.added, n - kept + 1, n)
            /\ gen.last = "clear_conversation_history" =>
                   (held = <<>> /\ images = <<>>)

\* More than history_limit entries have been added since a clear that
\* followed earlier entries; the history holds the last history_limit.
C30_Witness ==
    /\ gen # Nothing
    /\ gen.stage = "session"
    /\ Len(gen.added) > history_limit
    /\ gen.turns > Len(gen.added)
    /\ Len(gen.session.conversation_history) = history_limit
    /\ gen.session.conversation_history[1] = gen.turns - history_limit + 1

=============================================================================
